---- MODULE Spec2Model ----
(***************************************************************************)
(* Academic records backend (sga-backend): the grade / enrollment core.    *)
(*                                                                         *)
(* The record store is modelled by four tables and a registry:             *)
(*   class_groups  sequence of ClassGroup rows, id = position              *)
(*   enrollments   sequence of Enrollment rows, id = position              *)
(*   evaluations   sequence of Evaluation rows, id = position              *)
(*   grades        bag of Grade rows (a bag, so that two rows for one      *)
(*                 (enrollment_id, evaluation_id) pair are representable)   *)
(*   courses       sequence of Course rows, id = position                   *)
(*   students      Student rows by id                                       *)
(* Decimal columns (score, weight, max_score, final_grade) are integers in *)
(* hundredths: 7.50 is 750.  A nullable column holds <<>> (null) or <<v>>. *)
(* A route handler is an operator from (db, current_user, request data) to *)
(* [db, code, error]; an action applies one handler to one request and     *)
(* keeps the request and its response in `http` until the client takes it. *)
(***************************************************************************)
EXTENDS Integers, Sequences, FiniteSets, Bags, TLC

VARIABLES class_groups, enrollments, evaluations, grades, courses, students,
          users, teachers, subjects, session, http, reqs

vars == <<class_groups, enrollments, evaluations, grades, courses, students,
         users, teachers, subjects, session, http, reqs>>

tables == <<class_groups, enrollments, evaluations, grades>>

\* The Course, Student, User, Teacher and Subject rows (sequences, id =
\* position), which the grade and class handlers only read, and the rows a
\* request has flushed but not yet committed.
registry == <<courses, students, users, teachers, subjects, session>>

\* The committed content of the record store.
DB == [class_groups |-> class_groups, enrollments |-> enrollments,
       evaluations |-> evaluations, grades |-> grades]

None == <<>>

Some(x) == <<x>>

\* ------------------------------------------------------------------ bounds
MaxClassGroups == 1

MaxEvaluations == 2

MaxBatch == 2

MaxCalcGrades == 3

MaxAttendance == 4

MaxTranscript == 3

\* ------------------------------------------------------- rows that exist
\* Teacher and Student rows are created by routes outside this model; these
\* are the ids of the rows that exist.
Teachers == {1, 2}

Students == {1, 2}

\* The User rows of an administrator and of the two students.
SeedUsers == <<[username |-> "admin", role |-> "admin", is_active |-> TRUE],
               [username |-> "s1", role |-> "student", is_active |-> TRUE],
               [username |-> "s2", role |-> "student", is_active |-> TRUE]>>

\* One active course with both students in it, both of status active: the
\* registry of every specification that leaves courses and students alone.
InitRegistry ==
    /\ courses = <<[is_active |-> TRUE]>>
    /\ students = [s \in Students |->
                      [user_id |-> s + 1, student_number |-> s,
                       course_id |-> 1, status |-> "active"]]
    /\ users = SeedUsers
    /\ teachers = <<>>
    /\ subjects = <<>>
    /\ session = None

\* current_user as the handlers see it: the role of the User row and the
\* Teacher row found by Teacher.query.filter_by(user_id=...).first()
\* (None when the user has no Teacher row, which users.create_user allows).
Users == {[role |-> "admin", teacher |-> None],
          [role |-> "coordinator", teacher |-> None],
          [role |-> "teacher", teacher |-> Some(1)],
          [role |-> "teacher", teacher |-> Some(2)],
          [role |-> "teacher", teacher |-> None],
          [role |-> "student", teacher |-> None]}

\* --------------------------------------------------------------- helpers
\* The rows of a bag as a sequence, each row as often as the bag holds it:
\* what a query returns.
RECURSIVE BagToSeq(_)
BagToSeq(b) ==
    IF DOMAIN b = {} THEN <<>>
    ELSE LET r == CHOOSE x \in DOMAIN b : TRUE
         IN <<r>> \o BagToSeq(b (-) SetToBag({r}))

\* The rows of bag b that satisfy P.
BagFilter(b, P(_)) == [r \in {x \in DOMAIN b : P(x)} |-> b[r]]

\* round(n / d, 2) of calculate_final_grade, in hundredths, d > 0: the
\* integer nearest to n / d.  The code rounds a float quotient, so which
\* neighbour an exact tie goes to depends on the float's binary expansion;
\* the tie goes to the even neighbour here, and no property relies on it.
Round(n, d) ==
    LET q == n \div d
        r == n % d
    IN IF 2 * r < d THEN q
       ELSE IF 2 * r > d THEN q + 1
       ELSE IF q % 2 = 0 THEN q ELSE q + 1

\* ------------------------------------------------- Enrollment (model)
\* Enrollment.calculate_final_grade.  self_grades is the loaded
\* relationship collection self.grades, a sequence of Grade rows; evals is
\* the evaluations table (grade.evaluation is the row of grade.evaluation_id).
\* The loop accumulates (total_weighted_score, total_weight); both are kept
\* exact: score and weight are hundredths, so the quotient is in hundredths
\* and round(.., 2) rounds it to an integer.
\* The loop with `if grade.score and grade.evaluation`: a score of 0 is
\* skipped like a null one.
RECURSIVE final_grade_loop_truthy(_, _, _, _, _)
final_grade_loop_truthy(self_grades, evals, i, total_weighted_score, total_weight) ==
    IF i > Len(self_grades)
    THEN IF total_weight > 0
         THEN Some(Round(total_weighted_score, total_weight))
         ELSE None
    ELSE LET grade == self_grades[i]
         IN IF grade.score \notin {None, Some(0)}
               /\ grade.evaluation_id \in DOMAIN evals
            THEN final_grade_loop_truthy(self_grades, evals, i + 1,
                   total_weighted_score
                     + grade.score[1] * evals[grade.evaluation_id].weight,
                   total_weight + evals[grade.evaluation_id].weight)
            ELSE final_grade_loop_truthy(self_grades, evals, i + 1,
                   total_weighted_score, total_weight)

RECURSIVE final_grade_loop(_, _, _, _, _)
final_grade_loop(self_grades, evals, i, total_weighted_score, total_weight) ==
    IF i > Len(self_grades)
    THEN IF total_weight > 0
         THEN Some(Round(total_weighted_score, total_weight))
         ELSE None
    ELSE LET grade == self_grades[i]
         IN IF grade.score # None /\ grade.evaluation_id \in DOMAIN evals
            THEN final_grade_loop(self_grades, evals, i + 1,
                   total_weighted_score
                     + grade.score[1] * evals[grade.evaluation_id].weight,
                   total_weight + evals[grade.evaluation_id].weight)
            ELSE final_grade_loop(self_grades, evals, i + 1,
                   total_weighted_score, total_weight)

calculate_final_grade(self_grades, evals) ==
    IF self_grades = <<>> THEN None
    ELSE final_grade_loop(self_grades, evals, 1, 0, 0)

\* enrollment.grades as a fresh lazy load returns it: the Grade rows of the
\* store whose enrollment_id is the enrollment's id.
grades_of(db, enrollment_id) ==
    BagToSeq(BagFilter(db.grades, LAMBDA r : r.enrollment_id = enrollment_id))

\* ------------------------------------------------- utils/decorators.py
\* The decorator without its role test.
teacher_or_above_required_any(current_user) == TRUE

teacher_or_above_required(current_user) ==
    current_user.role \in {"admin", "coordinator", "teacher"}

coordinator_or_admin_required(current_user) ==
    current_user.role \in {"admin", "coordinator"}

admin_required(current_user) == current_user.role = "admin"

\* --------------------------------------------------------- routes/grades.py
Reply(db, code, error) ==
    [db |-> db, code |-> code, error |-> error, errors |-> <<>>]

\* "Check if teacher has permission to grade this class": the caller's rule
\* of create_grade, update_grade, delete_grade and create_evaluation, applied
\* to the class group the handler looks at.
teacher_permitted(db, current_user, class_group_id) ==
    current_user.role = "teacher" =>
        /\ current_user.teacher # None
        /\ db.class_groups[class_group_id].teacher_id = current_user.teacher[1]

\* "Validate score" with the upper limit only.
score_valid_no_floor(score, evaluation) ==
    score # None => ~(score[1] > evaluation.max_score)

\* "Validate score": null passes, otherwise 0 <= score <= evaluation.max_score.
score_valid(score, evaluation) ==
    score # None => ~(score[1] < 0 \/ score[1] > evaluation.max_score)

\* A lookup that finds no row: every write is an INSERT.
grades_matching_none(grade_rows, enrollment_id, evaluation_id) == {}

\* Grade.query.filter_by(enrollment_id=.., evaluation_id=..): the matching rows.
grades_matching(grade_rows, enrollment_id, evaluation_id) ==
    {r \in DOMAIN grade_rows :
        r.enrollment_id = enrollment_id /\ r.evaluation_id = evaluation_id}

replace_row(grade_rows, old, new) ==
    (grade_rows (-) SetToBag({old})) (+) SetToBag({new})

\* The refresh deriving final_status from the final grade as well: approved
\* from 6.00 on, failed below.
refresh_final_grade_with_status(db, enrollment_id) ==
    LET final == calculate_final_grade(grades_of(db, enrollment_id),
                                       db.evaluations)
    IN [db EXCEPT !.enrollments[enrollment_id] =
           [@ EXCEPT !.final_grade = final,
                     !.final_status = IF final = None THEN "in_progress"
                                      ELSE IF final[1] >= 600 THEN "approved"
                                      ELSE "failed"]]

\* enrollment.final_grade = enrollment.calculate_final_grade(), on a freshly
\* loaded enrollment (after a commit every object is expired and reloaded).
refresh_final_grade(db, enrollment_id) ==
    [db EXCEPT !.enrollments[enrollment_id].final_grade =
        calculate_final_grade(grades_of(db, enrollment_id), db.evaluations)]

\* The checks of create_grade up to the first write; "ok" when all pass.
create_grade_check(db, current_user, data) ==
    IF ~teacher_or_above_required(current_user) THEN "role_required"
    ELSE IF \E f \in {"enrollment_id", "evaluation_id", "score"} :
               f \notin DOMAIN data
    THEN "field_required"
    ELSE IF data.enrollment_id \notin DOMAIN db.enrollments
    THEN "enrollment_not_found"
    ELSE IF data.evaluation_id \notin DOMAIN db.evaluations
    THEN "evaluation_not_found"
    ELSE IF ~teacher_permitted(db, current_user,
                db.evaluations[data.evaluation_id].class_group_id)
    THEN "permission_denied"
    ELSE IF ~score_valid(data.score, db.evaluations[data.evaluation_id])
    THEN "invalid_score"
    ELSE "ok"

error_code(error) ==
    CASE error \in {"role_required", "permission_denied"} -> 403
      [] error \in {"enrollment_not_found", "evaluation_not_found",
                    "grade_not_found", "class_not_found",
                    "student_not_found"} -> 404
      [] error \in {"server_error", "integrity_error"} -> 500
      [] OTHER -> 400

\* The grade write of create_grade and its commit: the existing row of the
\* pair is updated, or a new row is inserted.
upsert_grade(db, data) ==
    LET existing == grades_matching(db.grades, data.enrollment_id,
                                    data.evaluation_id)
    IN IF existing # {}
       THEN LET existing_grade == CHOOSE r \in existing : TRUE
            IN [db EXCEPT !.grades = replace_row(@, existing_grade,
                                [existing_grade EXCEPT !.score = data.score])]
       ELSE [db EXCEPT !.grades = @ (+) SetToBag({
                [enrollment_id |-> data.enrollment_id,
                 evaluation_id |-> data.evaluation_id,
                 score |-> data.score]})]

\* create_grade with "Validate score" moved after the grade write.
create_grade_write_first(db, current_user, data) ==
    LET error == create_grade_check(db, current_user, data)
    IN IF error = "invalid_score"
       THEN Reply(upsert_grade(db, data), error_code(error), error)
       ELSE IF error # "ok" THEN Reply(db, error_code(error), error)
       ELSE LET existing == grades_matching(db.grades, data.enrollment_id,
                                            data.evaluation_id)
                written == upsert_grade(db, data)
            IN Reply(refresh_final_grade(written, data.enrollment_id),
                     IF existing # {} THEN 200 ELSE 201, "ok")

create_grade(db, current_user, data) ==
    LET error == create_grade_check(db, current_user, data)
    IN IF error # "ok" THEN Reply(db, error_code(error), error)
       ELSE LET existing == grades_matching(db.grades, data.enrollment_id,
                                            data.evaluation_id)
                written == upsert_grade(db, data)
            IN Reply(refresh_final_grade(written, data.enrollment_id),
                     IF existing # {} THEN 200 ELSE 201, "ok")

\* update_grade; grade is Grade.query.get(grade_id): None or Some(row).
update_grade_check(db, current_user, grade, data) ==
    IF ~teacher_or_above_required(current_user) THEN "role_required"
    ELSE IF grade = None THEN "grade_not_found"
    ELSE IF ~teacher_permitted(db, current_user,
                db.evaluations[grade[1].evaluation_id].class_group_id)
    THEN "permission_denied"
    ELSE IF "score" \in DOMAIN data
            /\ ~score_valid(data.score, db.evaluations[grade[1].evaluation_id])
    THEN "invalid_score"
    ELSE "ok"

\* update_grade writing the score to every Grade row of the evaluation.
update_grade_whole_evaluation(db, current_user, grade, data) ==
    LET error == update_grade_check(db, current_user, grade, data)
    IN IF error # "ok" THEN Reply(db, error_code(error), error)
       ELSE LET v == grade[1].evaluation_id
                written ==
                  IF "score" \in DOMAIN data
                  THEN [db EXCEPT !.grades =
                          BagFilter(@, LAMBDA r : r.evaluation_id # v)
                          (+) SetToBag({[r EXCEPT !.score = data.score] :
                                  r \in {x \in DOMAIN db.grades :
                                             x.evaluation_id = v}})]
                  ELSE db
            IN Reply(refresh_final_grade(written, grade[1].enrollment_id),
                     200, "ok")

update_grade(db, current_user, grade, data) ==
    LET error == update_grade_check(db, current_user, grade, data)
    IN IF error # "ok" THEN Reply(db, error_code(error), error)
       ELSE LET written ==
                  IF "score" \in DOMAIN data
                  THEN [db EXCEPT !.grades = replace_row(@, grade[1],
                                      [grade[1] EXCEPT !.score = data.score])]
                  ELSE db
            IN Reply(refresh_final_grade(written, grade[1].enrollment_id),
                     200, "ok")

delete_grade_check(db, current_user, grade) ==
    IF ~teacher_or_above_required(current_user) THEN "role_required"
    ELSE IF grade = None THEN "grade_not_found"
    ELSE IF ~teacher_permitted(db, current_user,
                db.evaluations[grade[1].evaluation_id].class_group_id)
    THEN "permission_denied"
    ELSE "ok"

\* delete_grade without its `enrollment.final_grade = ...` statement.
delete_grade_no_refresh(db, current_user, grade) ==
    LET error == delete_grade_check(db, current_user, grade)
    IN IF error # "ok" THEN Reply(db, error_code(error), error)
       ELSE Reply([db EXCEPT !.grades = @ (-) SetToBag({grade[1]})], 200, "ok")

delete_grade(db, current_user, grade) ==
    LET error == delete_grade_check(db, current_user, grade)
    IN IF error # "ok" THEN Reply(db, error_code(error), error)
       ELSE LET written == [db EXCEPT !.grades = @ (-) SetToBag({grade[1]})]
            IN Reply(refresh_final_grade(written, grade[1].enrollment_id),
                     200, "ok")

\* create_evaluation.  The request's evaluation_type_id and name are present
\* and valid; `not data.get(field)` rejects a missing field and a falsy value.
create_evaluation(db, current_user, data) ==
    IF ~teacher_or_above_required(current_user)
    THEN Reply(db, 403, "role_required")
    ELSE IF \E f \in {"class_group_id", "weight", "max_score"} :
               f \notin DOMAIN data \/ data[f] = 0
    THEN Reply(db, 400, "field_required")
    ELSE IF data.class_group_id \notin DOMAIN db.class_groups
    THEN Reply(db, 404, "class_not_found")
    ELSE IF ~teacher_permitted(db, current_user, data.class_group_id)
    THEN Reply(db, 403, "permission_denied")
    ELSE Reply([db EXCEPT !.evaluations = Append(@,
                    [class_group_id |-> data.class_group_id,
                     weight |-> data.weight,
                     max_score |-> data.max_score])],
               201, "ok")

\* create_grades_batch.  The loop runs in one session `sess`:
\*   db       the store as the session sees it (flushed, uncommitted writes
\*            included: every query autoflushes first)
\*   loaded   the enrollments whose .grades collection the session has loaded
\*   hidden   the Grade rows added after their enrollment's collection was
\*            loaded: Grade(enrollment_id=..) does not append to a loaded
\*            collection, so calculate_final_grade does not iterate them
\*   errors, created, updated   the handler's three lists
batch_error(sess, i, kinds) ==
    [sess EXCEPT !.errors = @ \o [k \in 1..Len(kinds) |->
                                    [item |-> i, error |-> kinds[k]]]]

\* self.grades of create_grades_batch's enrollment object.
session_grades_of(sess, enrollment_id) ==
    grades_of([sess.db EXCEPT !.grades = @ (-) sess.hidden], enrollment_id)

batch_write(sess, grade_data) ==
    LET existing == grades_matching(sess.db.grades, grade_data.enrollment_id,
                                    grade_data.evaluation_id)
        e == grade_data.enrollment_id
        written ==
          IF existing # {}
          THEN LET existing_grade == CHOOSE r \in existing : TRUE
                   new == [existing_grade EXCEPT !.score = grade_data.score]
               IN [sess EXCEPT
                     !.db.grades = replace_row(@, existing_grade, new),
                     !.hidden = IF BagIn(existing_grade, @)
                                THEN replace_row(@, existing_grade, new)
                                ELSE @,
                     !.updated = @ + 1]
          ELSE LET grade == [enrollment_id |-> e,
                             evaluation_id |-> grade_data.evaluation_id,
                             score |-> grade_data.score]
               IN [sess EXCEPT
                     !.db.grades = @ (+) SetToBag({grade}),
                     !.hidden = IF e \in sess.loaded
                                THEN @ (+) SetToBag({grade}) ELSE @,
                     !.created = @ + 1]
    IN [written EXCEPT
          !.db.enrollments[e].final_grade =
              calculate_final_grade(session_grades_of(written, e),
                                    written.db.evaluations),
          !.loaded = @ \cup {e}]

\* One iteration of the loop, item i.  A missing field appends its message
\* and the inner `continue` goes on to the next field, not the next item; the
\* first read of a missing key then raises KeyError, which the item's
\* `except` turns into one more message.
batch_item(sess, teacher, i, grade_data) ==
    LET missing == <<"enrollment_id", "evaluation_id", "score">>
        required == SelectSeq(missing, LAMBDA f : f \notin DOMAIN grade_data)
        s1 == batch_error(sess, i, [k \in 1..Len(required) |-> "field_required"])
    IN IF "enrollment_id" \notin DOMAIN grade_data
          \/ "evaluation_id" \notin DOMAIN grade_data
       THEN batch_error(s1, i, <<"key_error">>)
       ELSE IF grade_data.enrollment_id \notin DOMAIN sess.db.enrollments
       THEN batch_error(s1, i, <<"enrollment_not_found">>)
       ELSE IF grade_data.evaluation_id \notin DOMAIN sess.db.evaluations
       THEN batch_error(s1, i, <<"evaluation_not_found">>)
       ELSE IF teacher # None
               /\ sess.db.class_groups[sess.db.evaluations[
                      grade_data.evaluation_id].class_group_id].teacher_id
                    # teacher[1]
       THEN batch_error(s1, i, <<"permission_denied">>)
       ELSE IF "score" \notin DOMAIN grade_data
       THEN batch_error(s1, i, <<"key_error">>)
       ELSE IF ~score_valid(grade_data.score,
                            sess.db.evaluations[grade_data.evaluation_id])
       THEN batch_error(s1, i, <<"invalid_score">>)
       ELSE batch_write(s1, grade_data)

RECURSIVE batch_loop(_, _, _, _)
batch_loop(sess, teacher, grades_data, i) ==
    IF i > Len(grades_data) THEN sess
    ELSE batch_loop(batch_item(sess, teacher, i, grades_data[i]),
                    teacher, grades_data, i + 1)

\* create_grades_batch that commits what the valid items wrote and reports
\* the errors of the others.
create_grades_batch_partial(db, current_user, grades_data) ==
    IF ~teacher_or_above_required(current_user)
    THEN Reply(db, 403, "role_required")
    ELSE IF grades_data = <<>> THEN Reply(db, 400, "field_required")
    ELSE LET teacher == IF current_user.role = "teacher"
                        THEN current_user.teacher ELSE None
             sess == batch_loop([db |-> db, loaded |-> {}, hidden |-> EmptyBag,
                                 errors |-> <<>>, created |-> 0, updated |-> 0],
                                teacher, grades_data, 1)
         IN [db |-> sess.db,
             code |-> IF sess.errors # <<>> THEN 400 ELSE 200,
             error |-> IF sess.errors # <<>> THEN "batch_errors" ELSE "ok",
             errors |-> sess.errors]

\* data is the request's 'grades' list; the empty list is rejected like a
\* missing one.
create_grades_batch(db, current_user, grades_data) ==
    IF ~teacher_or_above_required(current_user)
    THEN Reply(db, 403, "role_required")
    ELSE IF grades_data = <<>> THEN Reply(db, 400, "field_required")
    ELSE LET teacher == IF current_user.role = "teacher"
                        THEN current_user.teacher ELSE None
             sess == batch_loop([db |-> db, loaded |-> {}, hidden |-> EmptyBag,
                                 errors |-> <<>>, created |-> 0, updated |-> 0],
                                teacher, grades_data, 1)
         IN IF sess.errors # <<>>
            THEN [db |-> db, code |-> 400, error |-> "batch_errors",
                  errors |-> sess.errors]
            ELSE Reply(sess.db, 200, "ok")

\* -------------------------------------------------------- routes/classes.py
\* ClassGroup.enrolled_students_count
enrolled_students_count(db, class_id) ==
    Cardinality({e \in DOMAIN db.enrollments :
        /\ db.enrollments[e].class_group_id = class_id
        /\ db.enrollments[e].status = "enrolled"})

\* create_class.  subject_id, semester, year and class_code are present and
\* name no existing class group; max_students defaults to 50 when absent.
DefaultMaxStudents == 50

create_class(db, current_user, data) ==
    IF ~coordinator_or_admin_required(current_user)
    THEN Reply(db, 403, "role_required")
    ELSE IF "teacher_id" \notin DOMAIN data \/ data.teacher_id = 0
    THEN Reply(db, 400, "field_required")
    ELSE IF data.teacher_id \notin Teachers
    THEN Reply(db, 404, "teacher_not_found")
    ELSE Reply([db EXCEPT !.class_groups = Append(@,
                    [teacher_id |-> data.teacher_id,
                     max_students |-> IF "max_students" \in DOMAIN data
                                      THEN data.max_students
                                      ELSE DefaultMaxStudents,
                     status |-> "planned"])],
               201, "ok")

\* update_class.  The fields it copies that no other handler reads
\* (schedule_info, classroom, dates, class_code) are left out.
update_class(db, current_user, class_id, data) ==
    IF ~coordinator_or_admin_required(current_user)
    THEN Reply(db, 403, "role_required")
    ELSE IF class_id \notin DOMAIN db.class_groups
    THEN Reply(db, 404, "class_not_found")
    ELSE IF "teacher_id" \in DOMAIN data /\ data.teacher_id \notin Teachers
    THEN Reply(db, 404, "teacher_not_found")
    ELSE LET class_group == db.class_groups[class_id]
             c1 == IF "teacher_id" \in DOMAIN data
                   THEN [class_group EXCEPT !.teacher_id = data.teacher_id]
                   ELSE class_group
             c2 == IF "max_students" \in DOMAIN data
                   THEN [c1 EXCEPT !.max_students = data.max_students]
                   ELSE c1
             c3 == IF "status" \in DOMAIN data
                      /\ data.status \in {"planned", "active", "completed",
                                          "cancelled"}
                   THEN [c2 EXCEPT !.status = data.status]
                   ELSE c2
         IN Reply([db EXCEPT !.class_groups[class_id] = c3], 200, "ok")

delete_class(db, current_user, class_id) ==
    IF ~coordinator_or_admin_required(current_user)
    THEN Reply(db, 403, "role_required")
    ELSE IF class_id \notin DOMAIN db.class_groups
    THEN Reply(db, 404, "class_not_found")
    ELSE IF enrolled_students_count(db, class_id) > 0
    THEN Reply(db, 400, "has_enrolled_students")
    ELSE Reply([db EXCEPT !.class_groups[class_id].status = "cancelled"],
               200, "ok")

\* The capacity test with > for >=.
class_is_full_above(db, class_id) ==
    enrolled_students_count(db, class_id)
        > db.class_groups[class_id].max_students

\* "Check if class is full"
class_is_full(db, class_id) ==
    enrolled_students_count(db, class_id)
        >= db.class_groups[class_id].max_students

\* enroll_student whose "already enrolled" query looks at the rows with
\* status enrolled only.
enroll_student_active_only(db, current_user, class_id, data) ==
    IF ~coordinator_or_admin_required(current_user)
    THEN Reply(db, 403, "role_required")
    ELSE IF class_id \notin DOMAIN db.class_groups
    THEN Reply(db, 404, "class_not_found")
    ELSE IF "student_id" \notin DOMAIN data \/ data.student_id = 0
    THEN Reply(db, 400, "field_required")
    ELSE IF data.student_id \notin Students
    THEN Reply(db, 404, "student_not_found")
    ELSE IF \E e \in DOMAIN db.enrollments :
               /\ db.enrollments[e].student_id = data.student_id
               /\ db.enrollments[e].class_group_id = class_id
               /\ db.enrollments[e].status = "enrolled"
    THEN Reply(db, 400, "already_enrolled")
    ELSE IF class_is_full(db, class_id)
    THEN Reply(db, 400, "class_full")
    ELSE Reply([db EXCEPT !.enrollments = Append(@,
                    [student_id |-> data.student_id,
                     class_group_id |-> class_id,
                     status |-> "enrolled",
                     final_grade |-> None,
                     final_status |-> "in_progress"])],
               201, "ok")

enroll_student(db, current_user, class_id, data) ==
    IF ~coordinator_or_admin_required(current_user)
    THEN Reply(db, 403, "role_required")
    ELSE IF class_id \notin DOMAIN db.class_groups
    THEN Reply(db, 404, "class_not_found")
    ELSE IF "student_id" \notin DOMAIN data \/ data.student_id = 0
    THEN Reply(db, 400, "field_required")
    ELSE IF data.student_id \notin Students
    THEN Reply(db, 404, "student_not_found")
    ELSE IF \E e \in DOMAIN db.enrollments :
               /\ db.enrollments[e].student_id = data.student_id
               /\ db.enrollments[e].class_group_id = class_id
    THEN Reply(db, 400, "already_enrolled")
    ELSE IF class_is_full(db, class_id)
    THEN Reply(db, 400, "class_full")
    ELSE Reply([db EXCEPT !.enrollments = Append(@,
                    [student_id |-> data.student_id,
                     class_group_id |-> class_id,
                     status |-> "enrolled",
                     final_grade |-> None,
                     final_status |-> "in_progress"])],
               201, "ok")

\* unenroll_student deleting the Enrollment row instead of marking it.
unenroll_student_removes(db, current_user, class_id, student_id) ==
    IF ~coordinator_or_admin_required(current_user)
    THEN Reply(db, 403, "role_required")
    ELSE LET found == {e \in DOMAIN db.enrollments :
                         /\ db.enrollments[e].student_id = student_id
                         /\ db.enrollments[e].class_group_id = class_id}
         IN IF found = {} THEN Reply(db, 404, "enrollment_not_found")
            ELSE LET e == CHOOSE x \in found : \A y \in found : x <= y
                 IN Reply([db EXCEPT !.enrollments =
                              SubSeq(@, 1, e - 1) \o SubSeq(@, e + 1, Len(@))],
                          200, "ok")

\* unenroll_student switching the status: a dropped row becomes enrolled.
unenroll_student_toggles(db, current_user, class_id, student_id) ==
    IF ~coordinator_or_admin_required(current_user)
    THEN Reply(db, 403, "role_required")
    ELSE LET found == {e \in DOMAIN db.enrollments :
                         /\ db.enrollments[e].student_id = student_id
                         /\ db.enrollments[e].class_group_id = class_id}
         IN IF found = {} THEN Reply(db, 404, "enrollment_not_found")
            ELSE LET e == CHOOSE x \in found : \A y \in found : x <= y
                 IN Reply([db EXCEPT !.enrollments[e].status =
                              IF @ = "dropped" THEN "enrolled" ELSE "dropped"],
                          200, "ok")

unenroll_student(db, current_user, class_id, student_id) ==
    IF ~coordinator_or_admin_required(current_user)
    THEN Reply(db, 403, "role_required")
    ELSE LET found == {e \in DOMAIN db.enrollments :
                         /\ db.enrollments[e].student_id = student_id
                         /\ db.enrollments[e].class_group_id = class_id}
         IN IF found = {} THEN Reply(db, 404, "enrollment_not_found")
            ELSE LET e == CHOOSE x \in found : \A y \in found : x <= y
                 IN Reply([db EXCEPT !.enrollments[e].status = "dropped"],
                          200, "ok")

\* ------------------------------------------------------- requests
\* One request at a time: a handler runs when no response is outstanding,
\* and its request and response stay in `http` until Return.
Handle(op, current_user, args, reply) ==
    /\ http = None
    /\ class_groups' = reply.db.class_groups
    /\ enrollments' = reply.db.enrollments
    /\ evaluations' = reply.db.evaluations
    /\ grades' = reply.db.grades
    /\ http' = Some([op |-> op, user |-> current_user, args |-> args,
                     code |-> reply.code, error |-> reply.error,
                     errors |-> reply.errors])
    /\ UNCHANGED <<registry, reqs>>

Return ==
    /\ http # None
    /\ http' = None
    /\ UNCHANGED <<tables, registry, reqs>>

\* Request inputs.  An id ranges over the existing ids and one unknown id.
ScoreInputs == {None, Some(0 - 100), Some(600), Some(1000)}

EvaluationInputs == {[weight |-> 100, max_score |-> 1000],
                     [weight |-> 200, max_score |-> 600],
                     [weight |-> 0, max_score |-> 1000]}

GradeUsers == {u \in Users : u.role # "coordinator"}

ClassUsers == {u \in Users : u.role \in {"coordinator", "student"}}

GradeTargets == {None} \cup {Some(r) : r \in DOMAIN grades}

GradeData ==
    LET ids == [enrollment_id : 1..(Len(enrollments) + 1),
                evaluation_id : 1..(Len(evaluations) + 1)]
    IN {[enrollment_id |-> d.enrollment_id, evaluation_id |-> d.evaluation_id,
         score |-> s] : d \in ids, s \in ScoreInputs}
       \cup {d \in ids : d.enrollment_id = 1 /\ d.evaluation_id = 1}

CreateEvaluation ==
    /\ Len(evaluations) < MaxEvaluations
    /\ \E u \in GradeUsers, c \in 1..(Len(class_groups) + 1),
          i \in EvaluationInputs :
          LET data == [class_group_id |-> c, weight |-> i.weight,
                       max_score |-> i.max_score]
          IN Handle("create_evaluation", u, data,
                    create_evaluation(DB, u, data))

CreateGrade ==
    \E u \in GradeUsers, data \in GradeData :
        Handle("create_grade", u, data, create_grade(DB, u, data))

UpdateGrade ==
    \E u \in GradeUsers, g \in GradeTargets,
       data \in {[score |-> s] : s \in ScoreInputs} \cup {[comments |-> "c"]} :
        Handle("update_grade", u, [grade |-> g, data |-> data],
               update_grade(DB, u, g, data))

DeleteGrade ==
    \E u \in GradeUsers, g \in GradeTargets :
        Handle("delete_grade", u, [grade |-> g], delete_grade(DB, u, g))

\* The state the grade book starts from: class group 1 of teacher 1 and class
\* group 2 of teacher 2, one student enrolled in each, and two evaluations,
\* both of class group 1 or one of each class group (create_class,
\* update_class, enroll_student and create_evaluation produce these states).
GradeBookClasses ==
    <<[teacher_id |-> 1, max_students |-> 2, status |-> "active"],
      [teacher_id |-> 2, max_students |-> 2, status |-> "active"]>>

GradeBookEnrollments ==
    <<[student_id |-> 1, class_group_id |-> 1, status |-> "enrolled",
       final_grade |-> None, final_status |-> "in_progress"],
      [student_id |-> 2, class_group_id |-> 2, status |-> "enrolled",
       final_grade |-> None, final_status |-> "in_progress"]>>

GradeBookEvaluations ==
    {<<[class_group_id |-> 1, weight |-> 100, max_score |-> 1000],
       [class_group_id |-> c, weight |-> 200, max_score |-> 600]>> :
        c \in 1..2}

InitGradeBook ==
    /\ class_groups = GradeBookClasses
    /\ enrollments = GradeBookEnrollments
    /\ evaluations \in GradeBookEvaluations
    /\ grades = EmptyBag
    /\ InitRegistry
    /\ http = None
    /\ reqs = <<>>

InitEvaluations ==
    /\ class_groups = GradeBookClasses
    /\ enrollments = GradeBookEnrollments
    /\ evaluations = <<>>
    /\ grades = EmptyBag
    /\ InitRegistry
    /\ http = None
    /\ reqs = <<>>

NextEvaluations ==
    \/ CreateEvaluation
    \/ Return

SpecEvaluations == InitEvaluations /\ [][NextEvaluations]_vars

\* The items a batch is made of: two scores for the pair (1, 1), a score for
\* the pair (1, 2), a score above the max_score of evaluation 2, for
\* enrollment 2, an unknown enrollment, an unknown evaluation, and an item
\* that lacks its score.
BatchItems ==
    {[enrollment_id |-> 1, evaluation_id |-> 1, score |-> Some(600)],
     [enrollment_id |-> 1, evaluation_id |-> 1, score |-> Some(1000)],
     [enrollment_id |-> 1, evaluation_id |-> 2, score |-> Some(600)],
     [enrollment_id |-> 2, evaluation_id |-> 2, score |-> Some(1000)],
     [enrollment_id |-> Len(enrollments) + 1, evaluation_id |-> 1,
      score |-> Some(600)],
     [enrollment_id |-> 1, evaluation_id |-> Len(evaluations) + 1,
      score |-> Some(600)],
     [enrollment_id |-> 1, evaluation_id |-> 1]}

BatchUsers == {u \in GradeUsers : u.teacher # Some(2)}

Batches == UNION {[1..n -> BatchItems] : n \in 0..MaxBatch}

CreateGradesBatch ==
    \E u \in BatchUsers, grades_data \in Batches :
        Handle("create_grades_batch", u, [grades |-> grades_data],
               create_grades_batch(DB, u, grades_data))

\* Class groups and enrollments, from the empty store.
ClassData ==
    {[teacher_id |-> 1, max_students |-> m] : m \in 1..2}
    \cup {[teacher_id |-> 1], [teacher_id |-> 3], [max_students |-> 1]}

ClassUpdates ==
    {[max_students |-> m] : m \in 0..2}
    \cup {[teacher_id |-> t] : t \in {1, 3}}

EnrollData ==
    {[student_id |-> s] : s \in Students \cup {0, 3}}
    \cup {[enrollment_date |-> "2024-03-01"]}

ClassIds == 1..(Len(class_groups) + 1)

CreateClass ==
    /\ Len(class_groups) < MaxClassGroups
    /\ \E u \in ClassUsers, data \in ClassData :
          Handle("create_class", u, data, create_class(DB, u, data))

UpdateClass ==
    \E u \in ClassUsers, c \in ClassIds, data \in ClassUpdates :
        Handle("update_class", u, [class_id |-> c, data |-> data],
               update_class(DB, u, c, data))

EnrollStudent ==
    \E u \in ClassUsers, c \in ClassIds, data \in EnrollData :
        Handle("enroll_student", u, [class_id |-> c, data |-> data],
               enroll_student(DB, u, c, data))

UnenrollStudent ==
    \E u \in ClassUsers, c \in ClassIds, s \in Students :
        Handle("unenroll_student", u, [class_id |-> c, student_id |-> s],
               unenroll_student(DB, u, c, s))

InitClasses ==
    /\ class_groups = <<>>
    /\ enrollments = <<>>
    /\ evaluations = <<>>
    /\ grades = EmptyBag
    /\ InitRegistry
    /\ http = None
    /\ reqs = <<>>

NextClasses ==
    \/ CreateClass
    \/ UpdateClass
    \/ EnrollStudent
    \/ UnenrollStudent
    \/ Return

SpecClasses == InitClasses /\ [][NextClasses]_vars

\* calculate_final_grade on its own: one enrollment, MaxCalcGrades evaluations
\* of any weight the weight column can hold (create_evaluation accepts every
\* weight that is not falsy, and a weight below 0.005 is stored as 0.00), and
\* at most one Grade row per evaluation, of any score.
CalcWeights == {0 - 100, 0, 100, 200}

CalcScores == {None, Some(0), Some(700), Some(1000)}

CalcEvaluations ==
    [1..MaxCalcGrades -> [class_group_id : {1}, weight : CalcWeights,
                          max_score : {1000}]]

CalcGrades ==
    UNION {{SetToBag({[enrollment_id |-> 1, evaluation_id |-> v,
                       score |-> f[v]] : v \in S}) : f \in [S -> CalcScores]} :
           S \in SUBSET (1..MaxCalcGrades)}

InitCalc ==
    /\ class_groups = <<[teacher_id |-> 1, max_students |-> 2, status |-> "active"]>>
    /\ enrollments = <<GradeBookEnrollments[1]>>
    /\ evaluations \in CalcEvaluations
    /\ grades \in CalcGrades
    /\ InitRegistry
    /\ http = None
    /\ reqs = <<>>

Calculate ==
    /\ http = None
    /\ http' = Some([op |-> "calculate_final_grade",
                     result |-> calculate_final_grade(grades_of(DB, 1),
                                                      evaluations)])
    /\ UNCHANGED <<tables, registry, reqs>>

SpecCalc == InitCalc /\ [][Calculate]_vars

\* ------------------------------------------------- concurrent requests
\* Two requests served at once, each in its own session.  A handler's steps
\* are the store's transactions: the checks and the `existing_grade` query,
\* the grade write with its commit, the reload of enrollment.grades for
\* calculate_final_grade, and the commit of final_grade.  The tables hold
\* the committed rows, which is what the other request reads.  Each request
\* is served once; reqs[p] is its position and its local variables.
Procs == {1, 2}

ConcUser == [role |-> "admin", teacher |-> None]

ConcData ==
    {[enrollment_id |-> 1, evaluation_id |-> v, score |-> Some(s)] :
        v \in 1..2, s \in {300, 600}}

Idle == [pc |-> "idle"]

\* create_grade up to the `existing_grade` query (grades.py 89-123).
BeginCreateGrade(p) ==
    /\ reqs[p].pc = "idle"
    /\ \E data \in ConcData :
          LET error == create_grade_check(DB, ConcUser, data)
              existing == grades_matching(grades, data.enrollment_id,
                                          data.evaluation_id)
          IN reqs' = [reqs EXCEPT ![p] =
                IF error # "ok"
                THEN [pc |-> "done", op |-> "create_grade", data |-> data,
                      code |-> error_code(error)]
                ELSE [pc |-> "write", op |-> "create_grade", data |-> data,
                      existing |-> existing # {}]]
    /\ UNCHANGED <<tables, registry, http>>

\* delete_grade up to `enrollment = grade.enrollment` (grades.py 332-344).
BeginDeleteGrade(p) ==
    /\ reqs[p].pc = "idle"
    /\ \E g \in GradeTargets :
          LET error == delete_grade_check(DB, ConcUser, g)
          IN reqs' = [reqs EXCEPT ![p] =
                IF error # "ok"
                THEN [pc |-> "done", op |-> "delete_grade",
                      code |-> error_code(error)]
                ELSE [pc |-> "write", op |-> "delete_grade",
                      data |-> [enrollment_id |-> g[1].enrollment_id,
                                evaluation_id |-> g[1].evaluation_id],
                      existing |-> TRUE]]
    /\ UNCHANGED <<tables, registry, http>>

\* The grade write and the first db.session.commit().  The INSERT of a pair
\* that has a row by now violates the unique constraint, and the UPDATE or
\* DELETE of a row that is gone matches no row: the commit raises, the
\* handler rolls back and answers 500.
WriteGrade(p) ==
    /\ reqs[p].pc = "write"
    /\ LET r == reqs[p]
           now == grades_matching(grades, r.data.enrollment_id,
                                  r.data.evaluation_id)
       IN IF r.existing = (now = {})
          THEN /\ reqs' = [reqs EXCEPT ![p] =
                     [pc |-> "done", op |-> r.op, data |-> r.data, code |-> 500]]
               /\ UNCHANGED grades
          ELSE /\ grades' = IF r.op = "create_grade"
                            THEN upsert_grade(DB, r.data).grades
                            ELSE grades (-) SetToBag({CHOOSE g \in now : TRUE})
               /\ reqs' = [reqs EXCEPT ![p] = [r EXCEPT !.pc = "refresh"]]
    /\ UNCHANGED <<class_groups, enrollments, evaluations, registry, http>>

\* enrollment.calculate_final_grade(): the session reloads the enrollment's
\* grades from the committed rows and computes the value it will store.
LoadAndCalculate(p) ==
    /\ reqs[p].pc = "refresh"
    /\ reqs' = [reqs EXCEPT ![p] = [pc |-> "commit", op |-> @.op, data |-> @.data,
                    existing |-> @.existing,
                    final_grade |-> calculate_final_grade(
                        grades_of(DB, @.data.enrollment_id), evaluations)]]
    /\ UNCHANGED <<tables, registry, http>>

\* The second db.session.commit(): UPDATE enrollments SET final_grade.
CommitFinalGrade(p) ==
    /\ reqs[p].pc = "commit"
    /\ enrollments' = [enrollments EXCEPT
            ![reqs[p].data.enrollment_id].final_grade = reqs[p].final_grade]
    /\ reqs' = [reqs EXCEPT ![p] =
            [pc |-> "done", op |-> @.op, data |-> @.data,
             code |-> IF @.op = "create_grade" /\ ~@.existing THEN 201 ELSE 200]]
    /\ UNCHANGED <<class_groups, evaluations, grades, registry, http>>

\* An exception after the first commit (the reload or the second commit
\* raises, for one an OperationalError of a locked or unreachable store):
\* `except Exception` rolls the open transaction back and answers 500.
FailAfterWrite(p) ==
    /\ reqs[p].pc \in {"refresh", "commit"}
    /\ reqs' = [reqs EXCEPT ![p] =
            [pc |-> "done", op |-> @.op, data |-> @.data, code |-> 500]]
    /\ UNCHANGED <<tables, registry, http>>

\* One enrollment of class group 1 with its two evaluations, ungraded or
\* with the grade a create_grade has given it.
InitConc ==
    /\ class_groups = <<GradeBookClasses[1]>>
    /\ evaluations = <<[class_group_id |-> 1, weight |-> 100, max_score |-> 1000],
                       [class_group_id |-> 1, weight |-> 200, max_score |-> 600]>>
    /\ \/ /\ grades = EmptyBag
          /\ enrollments = <<GradeBookEnrollments[1]>>
       \/ /\ grades = SetToBag({[enrollment_id |-> 1, evaluation_id |-> 1,
                                  score |-> Some(600)]})
          /\ enrollments = <<[GradeBookEnrollments[1] EXCEPT
                                 !.final_grade = Some(600)]>>
    /\ InitRegistry
    /\ http = None
    /\ reqs = [p \in Procs |-> Idle]

NextConc ==
    \E p \in Procs :
        \/ BeginCreateGrade(p)
        \/ BeginDeleteGrade(p)
        \/ WriteGrade(p)
        \/ LoadAndCalculate(p)
        \/ CommitFinalGrade(p)
        \/ FailAfterWrite(p)

SpecConc == InitConc /\ [][NextConc]_vars

NextSingle ==
    \/ CreateGrade
    \/ UpdateGrade
    \/ DeleteGrade
    \/ UnenrollStudent
    \/ Return

SpecSingle == InitGradeBook /\ [][NextSingle]_vars

Next ==
    \/ CreateGrade
    \/ CreateGradesBatch
    \/ UpdateGrade
    \/ DeleteGrade
    \/ Return

Spec == InitGradeBook /\ [][Next]_vars

\* ------------------------------------------- class group status
\* update_class with a status field: the four statuses and a value the
\* handler ignores.
ClassStatusUpdates ==
    {[status |-> st] :
        st \in {"planned", "active", "completed", "cancelled", "archived"}}

UpdateClassStatus ==
    \E u \in ClassUsers, c \in ClassIds, data \in ClassStatusUpdates :
        Handle("update_class", u, [class_id |-> c, data |-> data],
               update_class(DB, u, c, data))

DeleteClass ==
    \E u \in ClassUsers, c \in ClassIds :
        Handle("delete_class", u, [class_id |-> c], delete_class(DB, u, c))

\* The requests of action A whose caller has role student.
ByStudent(A) == A /\ http'[1].user.role = "student"

NextClassStatus ==
    \/ CreateClass
    \/ UpdateClassStatus
    \/ DeleteClass
    \/ EnrollStudent
    \/ UnenrollStudent
    \/ Return

SpecClassStatus == InitClasses /\ [][NextClassStatus]_vars

\* Every mutating route of grades.py and classes.py, called by a student in
\* any of the stores the other specifications start from.
InitStudent ==
    \/ InitGradeBook
    \/ InitEvaluations
    \/ InitClasses

NextStudent ==
    \/ ByStudent(CreateGrade)
    \/ ByStudent(CreateGradesBatch)
    \/ ByStudent(UpdateGrade)
    \/ ByStudent(DeleteGrade)
    \/ ByStudent(CreateEvaluation)
    \/ ByStudent(CreateClass)
    \/ ByStudent(UpdateClass)
    \/ ByStudent(DeleteClass)
    \/ ByStudent(EnrollStudent)
    \/ ByStudent(UnenrollStudent)
    \/ Return

SpecStudent == InitStudent /\ [][NextStudent]_vars

\* ------------------------------------------------------- read handlers
\* current_user of a read handler: the User's role, its Teacher row and its
\* Student row (Student.query.filter_by(user_id=...).first(), None for a user
\* of role student that has no Student row).
Readers ==
    {[role |-> "admin", teacher |-> None, student |-> None],
     [role |-> "teacher", teacher |-> Some(1), student |-> None],
     [role |-> "teacher", teacher |-> None, student |-> None],
     [role |-> "student", teacher |-> None, student |-> Some(1)],
     [role |-> "student", teacher |-> None, student |-> Some(2)],
     [role |-> "student", teacher |-> None, student |-> None]}

\* What a read handler answers: the status and the rows it serialises, the
\* Grade rows and the ids of the Enrollment rows.
Found(code, grade_rows, enrollment_ids) ==
    [code |-> code, grades |-> grade_rows, enrollments |-> enrollment_ids]

\* "Apply role-based filtering" of get_grades, as a test on a Grade row.
grades_role_filter(db, current_user, r) ==
    IF current_user.role = "teacher"
    THEN current_user.teacher # None
            => db.class_groups[db.enrollments[r.enrollment_id].class_group_id]
                  .teacher_id = current_user.teacher[1]
    ELSE IF current_user.role = "student"
    THEN current_user.student # None
            => db.enrollments[r.enrollment_id].student_id
                  = current_user.student[1]
    ELSE TRUE

\* get_grades; args holds class_id, student_id and evaluation_id, each None
\* when the query string lacks it.  One page holds every row.
get_grades(db, current_user, args) ==
    Found(200,
          {r \in DOMAIN db.grades :
              /\ grades_role_filter(db, current_user, r)
              /\ args.class_id # None
                    => db.enrollments[r.enrollment_id].class_group_id
                          = args.class_id[1]
              /\ (args.student_id # None
                    /\ current_user.role \in {"admin", "coordinator", "teacher"})
                    => db.enrollments[r.enrollment_id].student_id
                          = args.student_id[1]
              /\ args.evaluation_id # None
                    => r.evaluation_id = args.evaluation_id[1]},
          {})

\* get_grade; grade is Grade.query.get(grade_id).
get_grade(db, current_user, grade) ==
    IF grade = None THEN Found(404, {}, {}) ELSE Found(200, {grade[1]}, {})

\* get_class_students; status is the query's status, 'enrolled' by default.
get_class_students(db, current_user, class_id, status) ==
    IF class_id \notin DOMAIN db.class_groups THEN Found(404, {}, {})
    ELSE Found(200, {},
               {e \in DOMAIN db.enrollments :
                   /\ db.enrollments[e].class_group_id = class_id
                   /\ db.enrollments[e].status = status})

\* "Check permissions" of get_student_enrollments and get_student_transcript:
\* student.user_id != current_user.id for a caller of role student.
own_student_only(current_user, student_id) ==
    current_user.role = "student" => current_user.student = Some(student_id)

get_student_enrollments(db, current_user, student_id) ==
    IF student_id \notin Students THEN Found(404, {}, {})
    ELSE IF ~own_student_only(current_user, student_id)
    THEN Found(403, {}, {})
    ELSE Found(200, {},
               {e \in DOMAIN db.enrollments :
                   db.enrollments[e].student_id = student_id})

\* The GPA loop of get_student_transcript over the student's enrollments, in
\* id order from enrollment e on.  A class group row carries `credits`, the
\* credits of its subject (class_group.subject.credits).  final_grade is in
\* hundredths, so the quotient is and round(.., 2) rounds it to an integer.
RECURSIVE gpa_loop(_, _, _, _, _)
gpa_loop(db, student_id, e, total_grade_points, total_credits_for_gpa) ==
    IF e > Len(db.enrollments)
    THEN IF total_credits_for_gpa > 0
         THEN Round(total_grade_points, total_credits_for_gpa)
         ELSE 0
    ELSE LET enrollment == db.enrollments[e]
             credits == db.class_groups[enrollment.class_group_id].credits
         IN IF /\ enrollment.student_id = student_id
               /\ enrollment.final_grade \notin {None, Some(0)}
               /\ credits # 0
            THEN gpa_loop(db, student_id, e + 1,
                          total_grade_points + enrollment.final_grade[1] * credits,
                          total_credits_for_gpa + credits)
            ELSE gpa_loop(db, student_id, e + 1,
                          total_grade_points, total_credits_for_gpa)

\* The "Count credits" part of the same loop: the summary's counters after
\* the student's enrollments from e on.
RECURSIVE summary_loop(_, _, _, _)
summary_loop(db, student_id, e, summary) ==
    IF e > Len(db.enrollments) THEN summary
    ELSE LET enrollment == db.enrollments[e]
             credits == db.class_groups[enrollment.class_group_id].credits
             attempted == [summary EXCEPT !.total_credits_attempted = @ + credits]
         IN IF enrollment.student_id # student_id
            THEN summary_loop(db, student_id, e + 1, summary)
            ELSE IF enrollment.final_status = "approved"
            THEN summary_loop(db, student_id, e + 1,
                     [attempted EXCEPT !.total_credits_earned = @ + credits,
                                       !.approved_subjects = @ + 1])
            ELSE IF enrollment.final_status = "failed"
            THEN summary_loop(db, student_id, e + 1,
                     [attempted EXCEPT !.failed_subjects = @ + 1])
            ELSE summary_loop(db, student_id, e + 1, attempted)

get_student_transcript(db, current_user, student_id) ==
    IF student_id \notin Students
    THEN [code |-> 404, grades |-> {}, enrollments |-> {}, gpa |-> None,
          summary |-> None]
    ELSE IF ~own_student_only(current_user, student_id)
    THEN [code |-> 403, grades |-> {}, enrollments |-> {}, gpa |-> None,
          summary |-> None]
    ELSE [code |-> 200, grades |-> {},
          enrollments |-> {e \in DOMAIN db.enrollments :
                              db.enrollments[e].student_id = student_id},
          gpa |-> Some(gpa_loop(db, student_id, 1, 0, 0)),
          summary |-> Some(summary_loop(db, student_id, 1,
                              [total_credits_attempted |-> 0,
                               total_credits_earned |-> 0,
                               approved_subjects |-> 0,
                               failed_subjects |-> 0]))]

\* A read request: the tables stay, the answer waits in `http`.
Answer(op, current_user, args, found) ==
    /\ http = None
    /\ http' = Some([op |-> op, user |-> current_user, args |-> args,
                     code |-> found.code, found |-> found])
    /\ UNCHANGED <<tables, registry, reqs>>

OptionalIds(ids) == {None} \cup {Some(i) : i \in ids}

GetGrades ==
    \E u \in Readers, c \in OptionalIds(DOMAIN class_groups),
       s \in OptionalIds(Students), v \in OptionalIds({1}) :
        LET args == [class_id |-> c, student_id |-> s, evaluation_id |-> v]
        IN Answer("get_grades", u, args, get_grades(DB, u, args))

GetGrade ==
    \E u \in Readers, g \in GradeTargets :
        Answer("get_grade", u, [grade |-> g], get_grade(DB, u, g))

GetClassStudents ==
    \E u \in Readers, c \in ClassIds, status \in {"enrolled", "dropped"} :
        Answer("get_class_students", u, [class_id |-> c, status |-> status],
               get_class_students(DB, u, c, status))

GetStudentEnrollments ==
    \E u \in Readers, s \in Students \cup {3} :
        Answer("get_student_enrollments", u, [student_id |-> s],
               get_student_enrollments(DB, u, s))

GetStudentTranscript ==
    \E u \in Readers, s \in Students \cup {3} :
        Answer("get_student_transcript", u, [student_id |-> s],
               get_student_transcript(DB, u, s))

\* The store the read handlers are asked about: two class groups with the
\* credits of their subjects, student 1 enrolled in both and student 2 in
\* the second, one evaluation per class group, and any of three grades with
\* the final grades create_grade has computed from them.
ReportClasses ==
    <<[teacher_id |-> 1, max_students |-> 2, status |-> "active", credits |-> 4],
      [teacher_id |-> 2, max_students |-> 2, status |-> "active", credits |-> 2]>>

ReportEnrollments ==
    GradeBookEnrollments
        \o <<[student_id |-> 1, class_group_id |-> 2, status |-> "dropped",
              final_grade |-> None, final_status |-> "in_progress"]>>

ReportEvaluations ==
    <<[class_group_id |-> 1, weight |-> 100, max_score |-> 1000],
      [class_group_id |-> 2, weight |-> 200, max_score |-> 600]>>

ReportGrades ==
    {[enrollment_id |-> 1, evaluation_id |-> 1, score |-> Some(600)],
     [enrollment_id |-> 2, evaluation_id |-> 2, score |-> Some(300)],
     [enrollment_id |-> 3, evaluation_id |-> 2, score |-> None]}

InitReads ==
    /\ class_groups = ReportClasses
    /\ evaluations = ReportEvaluations
    /\ \E rows \in SUBSET ReportGrades :
          /\ grades = SetToBag(rows)
          /\ enrollments =
                [e \in DOMAIN ReportEnrollments |->
                    [ReportEnrollments[e] EXCEPT !.final_grade =
                        calculate_final_grade(
                            grades_of([grades |-> SetToBag(rows)], e),
                            ReportEvaluations)]]
    /\ InitRegistry
    /\ http = None
    /\ reqs = <<>>

NextReads ==
    \/ GetGrades
    \/ GetGrade
    \/ GetClassStudents
    \/ GetStudentEnrollments
    \/ GetStudentTranscript
    \/ Return

SpecReads == InitReads /\ [][NextReads]_vars

\* The transcript of student 1: up to MaxTranscript class groups, each with
\* the credits of its subject, and the student's enrollment in each with
\* any final grade (0.00 is the final grade of scores that are all 0).
TranscriptCredits == {2, 4}

TranscriptFinalGrades == {None, Some(0), Some(600), Some(800)}

InitTranscript ==
    /\ \E n \in 0..MaxTranscript :
          /\ \E credits \in [1..n -> TranscriptCredits] :
                class_groups = [c \in 1..n |->
                    [teacher_id |-> 1, max_students |-> 2,
                     status |-> "completed", credits |-> credits[c]]]
          /\ \E final \in [1..n -> TranscriptFinalGrades] :
                enrollments = [e \in 1..n |->
                    [student_id |-> 1, class_group_id |-> e,
                     status |-> "completed", final_grade |-> final[e],
                     final_status |-> "in_progress"]]
    /\ evaluations = <<>>
    /\ grades = EmptyBag
    /\ InitRegistry
    /\ http = None
    /\ reqs = <<>>

NextTranscript ==
    \/ GetStudentTranscript
    \/ Return

SpecTranscript == InitTranscript /\ [][NextTranscript]_vars

\* The transcript of enrollments as the handlers make them: the two class
\* groups with the credits of their subjects and an evaluation of the
\* first, nobody enrolled yet; staff enrol and grade students, and the
\* transcripts are read.
InitRecord ==
    /\ class_groups = ReportClasses
    /\ enrollments = <<>>
    /\ evaluations = <<ReportEvaluations[1]>>
    /\ grades = EmptyBag
    /\ InitRegistry
    /\ http = None
    /\ reqs = <<>>

\* The requests of action A whose caller is an administrator or a
\* coordinator.
ByStaff(A) == A /\ http'[1].user.role \in {"admin", "coordinator"}

NextRecord ==
    \/ ByStaff(EnrollStudent)
    \/ ByStaff(CreateGrade)
    \/ GetStudentTranscript
    \/ Return

SpecRecord == InitRecord /\ [][NextRecord]_vars

\* ------------------------------------------------------- pending grades
\* The pending-grades loop with `if not grade or grade.score is None`.
workload_pending_unscored(db, class_id) ==
    Cardinality({p \in (DOMAIN db.evaluations) \X (DOMAIN db.enrollments) :
        /\ db.evaluations[p[1]].class_group_id = class_id
        /\ db.enrollments[p[2]].class_group_id = class_id
        /\ db.enrollments[p[2]].status = "enrolled"
        /\ \A r \in grades_matching(db.grades, p[2], p[1]) : r.score = None})

\* "Count pending grades" of get_teacher_workload for one class group: the
\* iterations of the loop over its evaluations and its enrollments, those of
\* status enrolled, in which Grade.query...first() finds no row.
workload_pending(db, class_id) ==
    Cardinality({p \in (DOMAIN db.evaluations) \X (DOMAIN db.enrollments) :
        /\ db.evaluations[p[1]].class_group_id = class_id
        /\ db.enrollments[p[2]].class_group_id = class_id
        /\ db.enrollments[p[2]].status = "enrolled"
        /\ grades_matching(db.grades, p[2], p[1]) = {}})

\* get_teacher_workload without semester and year: the pending grades of
\* each class group of the teacher.
get_teacher_workload(db, current_user, teacher_id) ==
    IF ~teacher_or_above_required(current_user)
    THEN [code |-> 403, pending |-> <<>>]
    ELSE IF teacher_id \notin Teachers THEN [code |-> 404, pending |-> <<>>]
    ELSE IF current_user.role = "teacher"
            /\ current_user.teacher # Some(teacher_id)
    THEN [code |-> 403, pending |-> <<>>]
    ELSE [code |-> 200,
          pending |-> [c \in {x \in DOMAIN db.class_groups :
                                 db.class_groups[x].teacher_id = teacher_id}
                          |-> workload_pending(db, c)]]

\* pending_grades of get_dashboard_stats.  A teacher's count runs over the
\* teacher's class groups of status active, an admin's or coordinator's over
\* every evaluation; a student and a teacher without Teacher row get 0.
get_dashboard_stats(db, current_user) ==
    [code |-> 200,
     pending_grades |->
        IF current_user.role = "teacher"
        THEN IF current_user.teacher = None THEN 0
             ELSE Cardinality(
                {t \in (DOMAIN db.class_groups) \X (DOMAIN db.evaluations)
                          \X (DOMAIN db.enrollments) :
                    /\ db.class_groups[t[1]].teacher_id = current_user.teacher[1]
                    /\ db.class_groups[t[1]].status = "active"
                    /\ db.evaluations[t[2]].class_group_id = t[1]
                    /\ db.enrollments[t[3]].class_group_id = t[1]
                    /\ db.enrollments[t[3]].status = "enrolled"
                    /\ grades_matching(db.grades, t[3], t[2]) = {}})
        ELSE IF current_user.role = "student" THEN 0
        ELSE Cardinality(
                {p \in (DOMAIN db.evaluations) \X (DOMAIN db.enrollments) :
                    /\ db.enrollments[p[2]].class_group_id
                          = db.evaluations[p[1]].class_group_id
                    /\ db.enrollments[p[2]].status = "enrolled"
                    /\ grades_matching(db.grades, p[2], p[1]) = {}})]

GetTeacherWorkload ==
    \E u \in Readers, t \in Teachers \cup {3} :
        Answer("get_teacher_workload", u, [teacher_id |-> t],
               get_teacher_workload(DB, u, t))

GetDashboardStats ==
    \E u \in Readers :
        Answer("get_dashboard_stats", u, <<>>, get_dashboard_stats(DB, u))

\* Two class groups of teacher 1, the second active or only planned; two
\* students in the first, enrolled or dropped, and one in the second; one
\* evaluation each; and any of the Grade rows below, one with a null score.
WorkloadGrades ==
    {[enrollment_id |-> 1, evaluation_id |-> 1, score |-> Some(600)],
     [enrollment_id |-> 2, evaluation_id |-> 1, score |-> None],
     [enrollment_id |-> 3, evaluation_id |-> 2, score |-> Some(300)]}

InitWorkload ==
    /\ \E st \in {"active", "planned"} :
          class_groups =
            <<[teacher_id |-> 1, max_students |-> 2, status |-> "active"],
              [teacher_id |-> 1, max_students |-> 2, status |-> st]>>
    /\ \E s1, s2 \in {"enrolled", "dropped"} :
          enrollments =
            <<[student_id |-> 1, class_group_id |-> 1, status |-> s1,
               final_grade |-> None, final_status |-> "in_progress"],
              [student_id |-> 2, class_group_id |-> 1, status |-> s2,
               final_grade |-> None, final_status |-> "in_progress"],
              [student_id |-> 1, class_group_id |-> 2, status |-> "enrolled",
               final_grade |-> None, final_status |-> "in_progress"]>>
    /\ evaluations = ReportEvaluations
    /\ \E rows \in SUBSET WorkloadGrades : grades = SetToBag(rows)
    /\ InitRegistry
    /\ http = None
    /\ reqs = <<>>

NextWorkload ==
    \/ GetTeacherWorkload
    \/ GetDashboardStats
    \/ Return

SpecWorkload == InitWorkload /\ [][NextWorkload]_vars

\* ------------------------------------------------------- attendance
\* attendance_percentage that counts a late record as missed.
attendance_percentage_present_only(attendance_records) ==
    IF attendance_records = <<>> THEN 0
    ELSE LET total_classes == Len(attendance_records)
             present_classes == Len(SelectSeq(attendance_records,
                                     LAMBDA a : a = "present"))
         IN IF total_classes > 0
            THEN Round(present_classes * 10000, total_classes)
            ELSE 0

\* attendance_percentage that is 100 when there is no record.
attendance_percentage_full_when_empty(attendance_records) ==
    IF attendance_records = <<>> THEN 10000
    ELSE LET total_classes == Len(attendance_records)
             present_classes == Len(SelectSeq(attendance_records,
                                     LAMBDA a : a \in {"present", "late"}))
         IN Round(present_classes * 10000, total_classes)

\* Enrollment.attendance_percentage.  attendance_records is the relationship
\* collection, here the sequence of the records' statuses.  The value is a
\* percentage in hundredths (66.67 is 6667): round(present / total * 100, 2).
attendance_percentage(attendance_records) ==
    IF attendance_records = <<>> THEN 0
    ELSE LET total_classes == Len(attendance_records)
             present_classes == Len(SelectSeq(attendance_records,
                                     LAMBDA a : a \in {"present", "late"}))
         IN IF total_classes > 0
            THEN Round(present_classes * 10000, total_classes)
            ELSE 0

\* attendance_rate of get_attendance_report over the query's results; None
\* stands for the empty statistics the report gives when there is no record.
attendance_rate(results) ==
    IF results = <<>> THEN None
    ELSE LET total_records == Len(results)
             present_count == Len(SelectSeq(results,
                                   LAMBDA r : r \in {"present", "late"}))
         IN Some(IF total_records > 0
                 THEN Round(present_count * 10000, total_records)
                 ELSE 0)

AttendanceStatus == {"present", "absent", "late", "justified"}

\* One enrollment with any attendance records; no route writes Attendance
\* rows, they come with the store.
InitAttendance ==
    /\ class_groups = <<GradeBookClasses[1]>>
    /\ evaluations = <<>>
    /\ grades = EmptyBag
    /\ \E n \in 0..MaxAttendance :
          \E records \in [1..n -> AttendanceStatus] :
              enrollments = <<[student_id |-> 1, class_group_id |-> 1,
                               status |-> "enrolled", final_grade |-> None,
                               final_status |-> "in_progress",
                               attendance_records |-> records]>>
    /\ InitRegistry
    /\ http = None
    /\ reqs = <<>>

AttendancePercentage ==
    /\ http = None
    /\ http' = Some([op |-> "attendance_percentage",
                     result |-> attendance_percentage(
                                    enrollments[1].attendance_records),
                     rate |-> attendance_rate(
                                    enrollments[1].attendance_records)])
    /\ UNCHANGED <<tables, registry, reqs>>

SpecAttendance == InitAttendance /\ [][AttendancePercentage]_vars

\* ------------------------------------- routes/courses.py, routes/students.py
\* The registry as a handler sees it.
Registry == [courses |-> courses, students |-> students, users |-> users,
             teachers |-> teachers, subjects |-> subjects]

RegistryReply(rg, code, error) == [rg |-> rg, code |-> code, error |-> error]

\* "active_students_count": the students of the course whose status is
\* active.
active_students_count(rg, course_id) ==
    Cardinality({s \in DOMAIN rg.students :
                    /\ rg.students[s].course_id = course_id
                    /\ rg.students[s].status = "active"})

\* PUT /courses/<course_id>.  Of the request body the model keeps is_active
\* (None when the key is absent); the assignment is unconditional.
update_course(rg, current_user, course_id, data) ==
    IF ~coordinator_or_admin_required(current_user)
    THEN RegistryReply(rg, 403, "role_required")
    ELSE IF course_id \notin DOMAIN rg.courses
    THEN RegistryReply(rg, 404, "course_not_found")
    ELSE IF data.is_active # None
    THEN RegistryReply(
             [rg EXCEPT !.courses[course_id].is_active = data.is_active[1]],
             200, "ok")
    ELSE RegistryReply(rg, 200, "ok")

\* DELETE /courses/<course_id>: the soft delete.
delete_course(rg, current_user, course_id) ==
    IF ~coordinator_or_admin_required(current_user)
    THEN RegistryReply(rg, 403, "role_required")
    ELSE IF course_id \notin DOMAIN rg.courses
    THEN RegistryReply(rg, 404, "course_not_found")
    ELSE IF active_students_count(rg, course_id) > 0
    THEN RegistryReply(rg, 400, "has_active_students")
    ELSE RegistryReply([rg EXCEPT !.courses[course_id].is_active = FALSE],
                       200, "ok")

StudentStatuses == {"active", "inactive", "graduated", "dropped", "suspended"}

\* The course_id and the status that update_student leaves on the row: both
\* keys are read for an admin or a coordinator only, and a status outside
\* the valid ones is passed over.
updated_student(row, current_user, data) ==
    IF current_user.role \notin {"admin", "coordinator"}
    THEN row
    ELSE [row EXCEPT
             !.course_id = IF data.course_id # None THEN data.course_id[1]
                           ELSE @,
             !.status = IF data.status # None /\ data.status[1] \in StudentStatuses
                        THEN data.status[1]
                        ELSE @]

\* PUT /students/<student_id>.  Of the request body the model keeps
\* course_id and status (None when the key is absent).  A request that
\* returns before the commit leaves the rows as they were.
update_student(rg, current_user, student_id, data) ==
    IF student_id \notin DOMAIN rg.students
    THEN RegistryReply(rg, 404, "student_not_found")
    ELSE IF \/ /\ current_user.role = "student"
               /\ current_user.student # Some(student_id)
            \/ current_user.role \notin {"admin", "coordinator", "student"}
    THEN RegistryReply(rg, 403, "permission_denied")
    ELSE IF /\ current_user.role \in {"admin", "coordinator"}
            /\ data.course_id # None
            /\ data.course_id[1] \notin DOMAIN rg.courses
    THEN RegistryReply(rg, 404, "course_not_found")
    ELSE RegistryReply(
             [rg EXCEPT !.students[student_id] =
                            updated_student(@, current_user, data)],
             200, "ok")

\* DELETE /students/<student_id>: the soft delete.
delete_student(rg, current_user, student_id) ==
    IF ~coordinator_or_admin_required(current_user)
    THEN RegistryReply(rg, 403, "role_required")
    ELSE IF student_id \notin DOMAIN rg.students
    THEN RegistryReply(rg, 404, "student_not_found")
    ELSE RegistryReply(
             [rg EXCEPT !.students[student_id].status = "inactive",
                        !.users[rg.students[student_id].user_id].is_active = FALSE],
             200, "ok")

\* One request to a course or student handler.
HandleRegistry(op, current_user, args, reply) ==
    /\ http = None
    /\ courses' = reply.rg.courses
    /\ students' = reply.rg.students
    /\ users' = reply.rg.users
    /\ teachers' = reply.rg.teachers
    /\ subjects' = reply.rg.subjects
    /\ http' = Some([op |-> op, user |-> current_user, args |-> args,
                     code |-> reply.code, error |-> reply.error,
                     errors |-> <<>>])
    /\ UNCHANGED <<tables, session, reqs>>

CourseUsers ==
    Readers \cup {[role |-> "coordinator", teacher |-> None, student |-> None]}

CourseIds == (DOMAIN courses) \cup {Len(courses) + 1}

StudentIds == Students \cup {3}

UpdateCourse ==
    \E u \in CourseUsers, c \in CourseIds,
       a \in {None, Some(TRUE), Some(FALSE)} :
        HandleRegistry("update_course", u, [course_id |-> c, is_active |-> a],
                       update_course(Registry, u, c, [is_active |-> a]))

DeleteCourse ==
    \E u \in CourseUsers, c \in CourseIds :
        HandleRegistry("delete_course", u, [course_id |-> c],
                       delete_course(Registry, u, c))

UpdateStudent ==
    \E u \in CourseUsers, s \in StudentIds,
       c \in {None} \cup {Some(i) : i \in CourseIds},
       st \in {None, Some("active"), Some("graduated"), Some("expelled")} :
        HandleRegistry("update_student", u,
                       [student_id |-> s, course_id |-> c, status |-> st],
                       update_student(Registry, u, s,
                                      [course_id |-> c, status |-> st]))

DeleteStudent ==
    \E u \in CourseUsers, s \in StudentIds :
        HandleRegistry("delete_student", u, [student_id |-> s],
                       delete_student(Registry, u, s))

\* Two courses, active or not, and the two students, each in one of them and
\* active or inactive; no class groups yet.
InitCourses ==
    /\ class_groups = <<>>
    /\ enrollments = <<>>
    /\ evaluations = <<>>
    /\ grades = EmptyBag
    /\ courses \in [1..2 -> [is_active : BOOLEAN]]
    /\ \E c \in [Students -> 1..2], st \in [Students -> {"active", "inactive"}] :
           students = [s \in Students |->
                          [user_id |-> s + 1, student_number |-> s,
                           course_id |-> c[s], status |-> st[s]]]
    /\ users = SeedUsers
    /\ teachers = <<>>
    /\ subjects = <<>>
    /\ session = None
    /\ http = None
    /\ reqs = <<>>

NextCourses ==
    \/ UpdateCourse
    \/ DeleteCourse
    \/ UpdateStudent
    \/ DeleteStudent
    \/ Return

SpecCourses == InitCourses /\ [][NextCourses]_vars

\* ------------------------- create_student, create_teacher, simple_main.py
\* A request of create_student or create_teacher runs in two steps: it adds
\* the User row and flushes, then adds the Student (Teacher) row and commits.
\* Between the two the User row is in `session`, not in `users`.  Of the
\* request body the model keeps username (email is tested with it, in one
\* query), student_number, course_id, employee_number and academic_degree.
MaxUsers == 3

\* db.session.rollback() handing back the flushed User row.
rollback_keeps_flushed(rg, pending) ==
    [rg EXCEPT !.users = Append(@, pending.user_row)]

\* db.session.rollback(), and the removal of the session when a request ends
\* without commit: the flushed rows are dropped.
rollback(rg, pending) == rg

username_exists(rg, data) ==
    \E u \in DOMAIN rg.users : rg.users[u].username = data.username[1]

\* The answer of create_student before its first write: 0 when every test
\* passes.
create_student_check(rg, current_user, data) ==
    IF ~coordinator_or_admin_required(current_user) THEN 403
    ELSE IF data.username = None \/ data.student_number = None
            \/ data.course_id = None THEN 400
    ELSE IF username_exists(rg, data) THEN 400
    ELSE IF \E t \in DOMAIN rg.students :
                rg.students[t].student_number = data.student_number[1] THEN 400
    ELSE IF data.course_id[1] \notin DOMAIN rg.courses THEN 404
    ELSE 0

ValidDegrees == {"bachelor", "master", "doctorate", "post_doctorate"}

\* The answer of create_teacher before its first write.
create_teacher_check(rg, current_user, data) ==
    IF ~coordinator_or_admin_required(current_user) THEN 403
    ELSE IF data.username = None \/ data.employee_number = None
            \/ data.academic_degree = None THEN 400
    ELSE IF username_exists(rg, data) THEN 400
    ELSE IF \E t \in DOMAIN rg.teachers :
                rg.teachers[t].employee_number = data.employee_number[1] THEN 400
    ELSE IF data.academic_degree[1] \notin ValidDegrees THEN 400
    ELSE 0

\* simple_main.py's create_student tests nothing: a missing key raises, and
\* the unique username makes the flush raise; both answer 500.
simple_create_student_check(rg, data) ==
    IF data.username = None THEN 500
    ELSE IF username_exists(rg, data) THEN 500
    ELSE 0

\* The rows of the request, as they are after the flush.
Pending(op, current_user, data, role) ==
    [op |-> op, user |-> current_user, data |-> data,
     user_row |-> [username |-> data.username[1], role |-> role,
                   is_active |-> TRUE]]

\* Whether the store takes the second row: the columns are NOT NULL, and
\* student_number and employee_number are unique.
second_row_accepted(rg, pending) ==
    IF pending.user_row.role = "student"
    THEN /\ pending.data.student_number # None
         /\ pending.data.course_id # None
         /\ \A t \in DOMAIN rg.students :
                rg.students[t].student_number # pending.data.student_number[1]
    ELSE \A t \in DOMAIN rg.teachers :
                rg.teachers[t].employee_number # pending.data.employee_number[1]

\* db.session.commit() after the second add: both rows at once.
commit_rows(rg, pending) ==
    LET user_id == Len(rg.users) + 1
        with_user == [rg EXCEPT !.users = Append(@, pending.user_row)]
    IN  IF pending.user_row.role = "student"
        THEN [with_user EXCEPT !.students =
                 Append(@, [user_id |-> user_id,
                            student_number |-> pending.data.student_number[1],
                            course_id |-> pending.data.course_id[1],
                            status |-> "active"])]
        ELSE [with_user EXCEPT !.teachers =
                 Append(@, [user_id |-> user_id,
                            employee_number |-> pending.data.employee_number[1],
                            status |-> "active"])]

\* The first step of a creating request: the answer of the tests, or the
\* flush of the User row.
Flush(op, current_user, data, role, code) ==
    /\ http = None
    /\ session = None
    /\ Len(users) < MaxUsers
    /\ IF code # 0
       THEN /\ http' = Some([op |-> op, user |-> current_user, args |-> data,
                             code |-> code, error |-> "rejected",
                             errors |-> <<>>])
            /\ UNCHANGED session
       ELSE /\ session' = Some(Pending(op, current_user, data, role))
            /\ UNCHANGED http
    /\ UNCHANGED <<tables, courses, students, users, teachers, subjects, reqs>>

AccountUsers == {u \in CourseUsers : u.teacher = None /\ u.student = None}

Usernames == {None, Some("ana"), Some("bo")}

StudentData == [username : Usernames, student_number : {None, Some(1), Some(7)},
                course_id : {None, Some(1), Some(2)}]

TeacherData == [username : Usernames, employee_number : {None, Some(7)},
                academic_degree : {None, Some("master"), Some("licentiate")}]

CreateStudent ==
    \E u \in AccountUsers, data \in StudentData :
        Flush("create_student", u, data, "student",
              create_student_check(Registry, u, data))

CreateTeacher ==
    \E u \in AccountUsers, data \in TeacherData :
        Flush("create_teacher", u, data, "teacher",
              create_teacher_check(Registry, u, data))

SimpleCreateStudent ==
    \E u \in AccountUsers, data \in StudentData :
        Flush("simple_create_student", u, data, "student",
              simple_create_student_check(Registry, data))

\* The second step, when it goes through: 201.
CommitCreate ==
    /\ http = None
    /\ session # None
    /\ second_row_accepted(Registry, session[1])
    /\ LET rg == commit_rows(Registry, session[1])
       IN  /\ users' = rg.users
           /\ students' = rg.students
           /\ teachers' = rg.teachers
    /\ session' = None
    /\ http' = Some([op |-> session[1].op, user |-> session[1].user,
                     args |-> session[1].data, code |-> 201, error |-> "ok",
                     errors |-> <<>>])
    /\ UNCHANGED <<tables, courses, subjects, reqs>>

\* The second step, when it raises (a column the store refuses, a unique
\* number taken, a date it cannot bind): the handler rolls back, or the
\* session is removed with the request; 500.
FailCreate ==
    /\ http = None
    /\ session # None
    /\ LET rg == rollback(Registry, session[1])
       IN  /\ users' = rg.users
           /\ students' = rg.students
           /\ teachers' = rg.teachers
    /\ session' = None
    /\ http' = Some([op |-> session[1].op, user |-> session[1].user,
                     args |-> session[1].data, code |-> 500,
                     error |-> "exception", errors |-> <<>>])
    /\ UNCHANGED <<tables, courses, subjects, reqs>>

\* DELETE /teachers/<teacher_id>: the soft delete.
delete_teacher(rg, current_user, teacher_id) ==
    IF ~coordinator_or_admin_required(current_user)
    THEN RegistryReply(rg, 403, "role_required")
    ELSE IF teacher_id \notin DOMAIN rg.teachers
    THEN RegistryReply(rg, 404, "teacher_not_found")
    ELSE RegistryReply(
             [rg EXCEPT !.teachers[teacher_id].status = "inactive",
                        !.users[rg.teachers[teacher_id].user_id].is_active = FALSE],
             200, "ok")

DeleteTeacher ==
    \E u \in AccountUsers, t \in (DOMAIN teachers) \cup {Len(teachers) + 1} :
        HandleRegistry("delete_teacher", u, [teacher_id |-> t],
                       delete_teacher(Registry, u, t))

\* The administrator's User row, one course, nobody else yet.
InitAccounts ==
    /\ class_groups = <<>>
    /\ enrollments = <<>>
    /\ evaluations = <<>>
    /\ grades = EmptyBag
    /\ courses = <<[is_active |-> TRUE]>>
    /\ students = <<>>
    /\ users = <<SeedUsers[1]>>
    /\ teachers = <<>>
    /\ subjects = <<>>
    /\ session = None
    /\ http = None
    /\ reqs = <<>>

NextAccounts ==
    \/ CreateStudent
    \/ CreateTeacher
    \/ SimpleCreateStudent
    \/ CommitCreate
    \/ FailCreate
    \/ DeleteTeacher
    \/ Return

SpecAccounts == InitAccounts /\ [][NextAccounts]_vars

\* ------------------------------------------------ the delete operations
\* DELETE /users/<user_id>: the soft delete.
delete_user(rg, current_user, user_id) ==
    IF ~admin_required(current_user)
    THEN RegistryReply(rg, 403, "admin_required")
    ELSE IF user_id \notin DOMAIN rg.users
    THEN RegistryReply(rg, 404, "user_not_found")
    ELSE RegistryReply([rg EXCEPT !.users[user_id].is_active = FALSE],
                       200, "ok")

\* "active_classes_count": the class groups of the subject that are planned
\* or active.
active_classes_count(db, subject_id) ==
    Cardinality({c \in DOMAIN db.class_groups :
                    /\ db.class_groups[c].subject_id = subject_id
                    /\ db.class_groups[c].status \in {"planned", "active"}})

\* DELETE /subjects/<subject_id>: the soft delete.
delete_subject(db, rg, current_user, subject_id) ==
    IF ~coordinator_or_admin_required(current_user)
    THEN RegistryReply(rg, 403, "role_required")
    ELSE IF subject_id \notin DOMAIN rg.subjects
    THEN RegistryReply(rg, 404, "subject_not_found")
    ELSE IF active_classes_count(db, subject_id) > 0
    THEN RegistryReply(rg, 400, "has_active_classes")
    ELSE RegistryReply([rg EXCEPT !.subjects[subject_id].is_active = FALSE],
                       200, "ok")

DeleteUser ==
    \E u \in AccountUsers, i \in (DOMAIN users) \cup {Len(users) + 1} :
        HandleRegistry("delete_user", u, [user_id |-> i],
                       delete_user(Registry, u, i))

DeleteSubject ==
    \E u \in AccountUsers, i \in (DOMAIN subjects) \cup {Len(subjects) + 1} :
        HandleRegistry("delete_subject", u, [subject_id |-> i],
                       delete_subject(DB, Registry, u, i))

\* A store with one row of every kind to delete: the class group of subject
\* 1 and teacher 1 with both students enrolled, one evaluation and a grade
\* of each student, their final grades computed from it.
LifecycleEvaluations == <<[class_group_id |-> 1, weight |-> 100, max_score |-> 1000]>>

LifecycleGrades ==
    SetToBag({[enrollment_id |-> 1, evaluation_id |-> 1, score |-> Some(600)],
              [enrollment_id |-> 2, evaluation_id |-> 1, score |-> None]})

LifecycleEnrollments ==
    [s \in Students |->
        [student_id |-> s, class_group_id |-> 1, status |-> "enrolled",
         final_grade |->
             calculate_final_grade(
                 grades_of([grades |-> LifecycleGrades], s),
                 LifecycleEvaluations),
         final_status |-> "in_progress"]]

InitLifecycle ==
    /\ class_groups = <<[teacher_id |-> 1, subject_id |-> 1, max_students |-> 2,
                         status |-> "active"]>>
    /\ enrollments = LifecycleEnrollments
    /\ evaluations = LifecycleEvaluations
    /\ grades = LifecycleGrades
    /\ courses = <<[is_active |-> TRUE]>>
    /\ students = [s \in Students |->
                      [user_id |-> s + 1, student_number |-> s,
                       course_id |-> 1, status |-> "active"]]
    /\ users = Append(SeedUsers, [username |-> "t1", role |-> "teacher",
                                  is_active |-> TRUE])
    /\ teachers = <<[user_id |-> 4, employee_number |-> 1, status |-> "active"]>>
    /\ subjects = <<[is_active |-> TRUE]>>
    /\ session = None
    /\ http = None
    /\ reqs = <<>>

NextLifecycle ==
    \/ DeleteUser
    \/ DeleteCourse
    \/ DeleteSubject
    \/ DeleteClass
    \/ DeleteStudent
    \/ DeleteTeacher
    \/ UnenrollStudent
    \/ DeleteGrade
    \/ Return

SpecLifecycle == InitLifecycle /\ [][NextLifecycle]_vars

\* ------------------------------------------- concurrent enrollments
\* Two enroll_student requests served at once, each in its own session.  A
\* request reads the committed rows for its tests (classes.py 278-303), then
\* inserts its Enrollment row and commits (305-313); the other request may
\* commit between the two.
EnrollConcData == {[student_id |-> s] : s \in Students \cup {3}}

\* enroll_student up to "Check if class is full".
BeginEnrollStudent(p) ==
    /\ reqs[p].pc = "idle"
    /\ \E c \in ClassIds, data \in EnrollConcData :
          LET reply == enroll_student(DB, ConcUser, c, data)
          IN reqs' = [reqs EXCEPT ![p] =
                IF reply.code # 201
                THEN [pc |-> "done", op |-> "enroll_student", class_id |-> c,
                      data |-> data, code |-> reply.code]
                ELSE [pc |-> "insert", op |-> "enroll_student", class_id |-> c,
                      data |-> data]]
    /\ UNCHANGED <<tables, registry, http>>

\* db.session.add(enrollment); db.session.commit().  The store refuses a
\* second row of one (student_id, class_group_id) pair: the commit raises
\* and the handler answers 500.  It has no constraint on the count.
InsertEnrollment(p) ==
    /\ reqs[p].pc = "insert"
    /\ LET r == reqs[p]
       IN IF \E e \in DOMAIN enrollments :
                 /\ enrollments[e].student_id = r.data.student_id
                 /\ enrollments[e].class_group_id = r.class_id
          THEN /\ reqs' = [reqs EXCEPT ![p] = [pc |-> "done", op |-> r.op,
                              class_id |-> r.class_id, data |-> r.data,
                              code |-> 500]]
               /\ UNCHANGED enrollments
          ELSE /\ enrollments' = Append(enrollments,
                     [student_id |-> r.data.student_id,
                      class_group_id |-> r.class_id,
                      status |-> "enrolled",
                      final_grade |-> None,
                      final_status |-> "in_progress"])
               /\ reqs' = [reqs EXCEPT ![p] = [pc |-> "done", op |-> r.op,
                              class_id |-> r.class_id, data |-> r.data,
                              code |-> 201]]
    /\ UNCHANGED <<class_groups, evaluations, grades, registry, http>>

\* One class group with one seat or two, empty or with one seat given up.
InitEnrollConc ==
    /\ \E m \in 1..2 :
          class_groups = <<[teacher_id |-> 1, max_students |-> m,
                            status |-> "active"]>>
    /\ enrollments \in {<<>>,
                        <<[GradeBookEnrollments[1] EXCEPT !.status = "dropped"]>>}
    /\ evaluations = <<>>
    /\ grades = EmptyBag
    /\ InitRegistry
    /\ http = None
    /\ reqs = [p \in Procs |-> Idle]

NextEnrollConc ==
    \E p \in Procs :
        \/ BeginEnrollStudent(p)
        \/ InsertEnrollment(p)

SpecEnrollConc == InitEnrollConc /\ [][NextEnrollConc]_vars

\* ------------------------------------------------------------ properties
Responded(op) == http # None /\ http[1].op = op

Succeeded(op) == Responded(op) /\ http[1].code \in {200, 201}

FinalGradeOf(e) == calculate_final_grade(grades_of(DB, e), evaluations)

FinalGradesCurrent ==
    \A e \in DOMAIN enrollments : enrollments[e].final_grade = FinalGradeOf(e)

GradeMutations ==
    {"create_grade", "update_grade", "delete_grade", "create_grades_batch"}

\* C1: after every completed create_grade, update_grade and delete_grade,
\* each enrollment's final_grade is calculate_final_grade of its current
\* Grade rows, and a step that changes a final_grade is a grade mutation.
C1_FinalGradeFollowsGrades ==
    /\ []FinalGradesCurrent
    /\ [][\A e \in DOMAIN enrollments \cap DOMAIN enrollments' :
            enrollments'[e].final_grade # enrollments[e].final_grade
                => http' # None /\ http'[1].op \in GradeMutations]_vars

\* A delete_grade has left its enrollment with a scored grade and the final
\* grade computed from it.
C1_Witness ==
    /\ Succeeded("delete_grade")
    /\ LET e == http[1].args.grade[1].enrollment_id
       IN /\ http[1].args.grade[1].score # None
          /\ enrollments[e].final_grade # None
          /\ enrollments[e].final_grade # http[1].args.grade[1].score

\* The scored Grade rows of enrollment e and the two sums over them, taken
\* over the set of rows.
ScoredGrades(e) ==
    {r \in DOMAIN grades : r.enrollment_id = e /\ r.score # None}

RECURSIVE WeightedScoreSum(_)
WeightedScoreSum(rows) ==
    IF rows = {} THEN 0
    ELSE LET r == CHOOSE x \in rows : TRUE
         IN r.score[1] * evaluations[r.evaluation_id].weight
              + WeightedScoreSum(rows \ {r})

RECURSIVE WeightSum(_)
WeightSum(rows) ==
    IF rows = {} THEN 0
    ELSE LET r == CHOOSE x \in rows : TRUE
         IN evaluations[r.evaluation_id].weight + WeightSum(rows \ {r})

\* x is n / d rounded to an integer, d > 0 (either neighbour at a tie).
Nearest(x, n, d) ==
    LET diff == x * d - n
    IN 2 * (IF diff < 0 THEN 0 - diff ELSE diff) <= d

WithMaxScore(evals, m) == [v \in DOMAIN evals |-> [evals[v] EXCEPT !.max_score = m]]

MaxScoreIndependent(result) ==
    \A m \in {500, 2000} :
        calculate_final_grade(grades_of(DB, 1), WithMaxScore(evaluations, m))
            = result

HasFields(item) ==
    {"enrollment_id", "evaluation_id", "score"} \subseteq DOMAIN item

OutOfRange(score, evaluation_id) ==
    /\ score # None
    /\ evaluation_id \in DOMAIN evaluations
    /\ (score[1] < 0 \/ score[1] > evaluations[evaluation_id].max_score)

\* The class groups whose teacher_id is the caller's teacher id.
Taught(user) ==
    {c \in DOMAIN class_groups :
        user.teacher # None /\ class_groups[c].teacher_id = user.teacher[1]}

\* The item fails one of the handler's validations: a field is missing, the
\* enrollment or the evaluation is unknown, the caller's Teacher row is not
\* the teacher of the evaluation's class group, or the score is out of range.
ItemInvalid(user, item) ==
    \/ ~HasFields(item)
    \/ item.enrollment_id \notin DOMAIN enrollments
    \/ item.evaluation_id \notin DOMAIN evaluations
    \/ /\ user.role = "teacher" /\ user.teacher # None
       /\ evaluations[item.evaluation_id].class_group_id \notin Taught(user)
    \/ OutOfRange(item.score, item.evaluation_id)

\* C3: a create_grades_batch request with at least one item that fails
\* validation is answered with an error and leaves every Grade row and every
\* final_grade as they were, wherever the failing item stands.
C3_BatchAllOrNothing ==
    [][(/\ http' # None
        /\ http'[1].op = "create_grades_batch"
        /\ \E i \in DOMAIN http'[1].args.grades :
              ItemInvalid(http'[1].user, http'[1].args.grades[i]))
       => /\ grades' = grades
          /\ enrollments' = enrollments
          /\ http'[1].code \in {400, 403}]_vars

\* A batch whose first item is valid and whose second is not has been
\* refused, and the store holds no Grade row.
C3_Witness ==
    /\ Responded("create_grades_batch")
    /\ http[1].code = 400
    /\ Len(http[1].args.grades) = 2
    /\ ~ItemInvalid(http[1].user, http[1].args.grades[1])
    /\ ItemInvalid(http[1].user, http[1].args.grades[2])
    /\ \A k \in DOMAIN http[1].errors : http[1].errors[k].item = 2
    /\ grades = EmptyBag

\* The rows of a pair, each counted as often as the store holds it.
RowsOfPair(e, v) ==
    BagCardinality(BagFilter(grades,
        LAMBDA r : r.enrollment_id = e /\ r.evaluation_id = v))

\* The last item of a batch that names the pair of item i.
LastOfPair(grades_data, i) ==
    CHOOSE j \in DOMAIN grades_data :
        /\ grades_data[j].enrollment_id = grades_data[i].enrollment_id
        /\ grades_data[j].evaluation_id = grades_data[i].evaluation_id
        /\ \A k \in DOMAIN grades_data :
              (/\ grades_data[k].enrollment_id = grades_data[i].enrollment_id
               /\ grades_data[k].evaluation_id = grades_data[i].evaluation_id)
                  => k <= j

\* C6: no (enrollment_id, evaluation_id) pair has more than one Grade row,
\* and after a successful create_grade or create_grades_batch the pair of
\* each item has exactly one row, holding the score written last.
C6_OneGradePerPair ==
    /\ \A r \in DOMAIN grades : RowsOfPair(r.enrollment_id, r.evaluation_id) = 1
    /\ Succeeded("create_grade") =>
          /\ RowsOfPair(http[1].args.enrollment_id, http[1].args.evaluation_id) = 1
          /\ BagIn(http[1].args, grades)
    /\ Succeeded("create_grades_batch") =>
          \A i \in DOMAIN http[1].args.grades :
              LET item == http[1].args.grades[i]
              IN /\ RowsOfPair(item.enrollment_id, item.evaluation_id) = 1
                 /\ BagIn(http[1].args.grades[LastOfPair(http[1].args.grades, i)],
                          grades)

\* A committed batch named one pair twice, with two scores, and the pair
\* has its one row with the second score.
C6_Witness ==
    /\ Succeeded("create_grades_batch")
    /\ Len(http[1].args.grades) = 2
    /\ LET g == http[1].args.grades
       IN /\ g[1].enrollment_id = g[2].enrollment_id
          /\ g[1].evaluation_id = g[2].evaluation_id
          /\ g[1].score # g[2].score
          /\ RowsOfPair(g[1].enrollment_id, g[1].evaluation_id) = 1
          /\ BagIn(g[2], grades)

ScoreInRange(r) ==
    r.score # None =>
        0 <= r.score[1] /\ r.score[1] <= evaluations[r.evaluation_id].max_score

\* The scores a request carries, each with the evaluation it is for.
RequestScores(req) ==
    CASE req.op = "create_grade" /\ HasFields(req.args) ->
            {<<req.args.score, req.args.evaluation_id>>}
      [] req.op = "update_grade" /\ req.args.grade # None
            /\ "score" \in DOMAIN req.args.data ->
            {<<req.args.data.score, req.args.grade[1].evaluation_id>>}
      [] req.op = "create_grades_batch" ->
            {<<req.args.grades[i].score, req.args.grades[i].evaluation_id>> :
                i \in {k \in DOMAIN req.args.grades : HasFields(req.args.grades[k])}}
      [] OTHER -> {}

\* The request passes every check of its handler that comes before the score
\* check: the same request with a null score is accepted.
AcceptedWithNullScore(req) ==
    CASE req.op = "create_grade" ->
            create_grade(DB, req.user, [req.args EXCEPT !.score = None]).code
                \in {200, 201}
      [] req.op = "update_grade" ->
            update_grade(DB, req.user, req.args.grade, [score |-> None]).code = 200
      [] req.op = "create_grades_batch" ->
            teacher_or_above_required(req.user)

\* C7: every stored Grade has a null score or one in [0, max_score] of its
\* evaluation; a create_grade, create_grades_batch or update_grade request
\* that carries a score outside the range is refused and leaves the Grade
\* rows as they were, with status 400 when nothing else is wrong with it.
C7_ScoreWithinRange ==
    /\ [](\A r \in DOMAIN grades : ScoreInRange(r))
    /\ [][(/\ http' # None
           /\ \E sv \in RequestScores(http'[1]) : OutOfRange(sv[1], sv[2]))
          => /\ grades' = grades
             /\ http'[1].code \in {400, 403, 404}
             /\ AcceptedWithNullScore(http'[1]) => http'[1].code = 400]_vars

\* create_grade or update_grade has refused a negative score.
C7_Witness ==
    /\ http # None
    /\ http[1].code = 400
    /\ \/ /\ http[1].op = "create_grade"
          /\ http[1].error = "invalid_score"
          /\ http[1].args.score[1] < 0
       \/ /\ http[1].op = "update_grade"
          /\ http[1].error = "invalid_score"
          /\ http[1].args.data.score[1] < 0

\* The Grade rows that belong to a class group outside `taught`, through
\* their enrollment or through their evaluation.
GradesOutside(grade_rows, taught) ==
    BagFilter(grade_rows, LAMBDA r :
        \/ enrollments[r.enrollment_id].class_group_id \notin taught
        \/ evaluations[r.evaluation_id].class_group_id \notin taught)

\* C10: a request of a caller with role teacher changes no Grade row and no
\* final_grade that belongs to a class group whose teacher_id is not the
\* caller's teacher id.
C10_TeacherOwnClassesOnly ==
    [][(http' # None /\ http'[1].user.role = "teacher")
       => LET taught == Taught(http'[1].user)
          IN /\ GradesOutside(grades', taught) = GradesOutside(grades, taught)
             /\ \A e \in DOMAIN enrollments :
                   enrollments[e].class_group_id \notin taught
                       => enrollments'[e].final_grade
                            = enrollments[e].final_grade]_vars

EnrolledCount(c) ==
    Cardinality({e \in DOMAIN enrollments :
        enrollments[e].class_group_id = c /\ enrollments[e].status = "enrolled"})

\* C4: in every state, every class group has at most max_students
\* enrollments with status enrolled.
C4_EnrolledWithinCapacity ==
    \A c \in DOMAIN class_groups :
        EnrolledCount(c) <= class_groups[c].max_students

\* The enroll_student request is one the handler has nothing against but
\* the capacity: a coordinator or admin names an existing student who has
\* no Enrollment row in the class group.
EnrollRequestValid(req) ==
    /\ req.user.role \in {"admin", "coordinator"}
    /\ "student_id" \in DOMAIN req.args.data
    /\ req.args.data.student_id \in Students
    /\ \A e \in DOMAIN enrollments :
          ~(/\ enrollments[e].student_id = req.args.data.student_id
            /\ enrollments[e].class_group_id = req.args.class_id)

\* C5: enroll_student on a class group whose enrolled count has reached
\* max_students fails and changes neither the Enrollment rows nor the
\* enrolled count; the failure is the capacity error when the request is
\* otherwise valid.
C5_FullClassRejectsEnrollment ==
    [][(/\ http' # None
        /\ http'[1].op = "enroll_student"
        /\ http'[1].args.class_id \in DOMAIN class_groups
        /\ EnrolledCount(http'[1].args.class_id)
              >= class_groups[http'[1].args.class_id].max_students)
       => /\ http'[1].code \in {400, 403, 404}
          /\ enrollments' = enrollments
          /\ class_groups' = class_groups
          /\ EnrollRequestValid(http'[1])
                => http'[1].code = 400 /\ http'[1].error = "class_full"]_vars

\* A class group with exactly max_students >= 1 enrolled students has
\* refused one more student with the capacity error.
C5_Witness ==
    /\ Responded("enroll_student")
    /\ http[1].error = "class_full"
    /\ class_groups[http[1].args.class_id].max_students >= 1
    /\ EnrolledCount(http[1].args.class_id)
          = class_groups[http[1].args.class_id].max_students

\* ---- concurrent requests
\* C8: in every committed state, every enrollment's final_grade is the value
\* computed from the Grade rows committed in that state: a grade write is
\* never visible without its final_grade, neither while the request runs
\* nor after it has failed.
C8_GradeAndFinalGradeAtomic ==
    \A e \in DOMAIN enrollments :
        enrollments[e].final_grade = FinalGradeOf(e)

CreatedGrade(p) ==
    /\ reqs[p].pc = "done"
    /\ reqs[p].op = "create_grade"
    /\ reqs[p].code \in {200, 201}

\* C9: once two create_grade requests for two evaluations of one enrollment
\* have both succeeded, the enrollment's final_grade is the value computed
\* from both grades.
C9_NoLostUpdate ==
    (/\ CreatedGrade(1) /\ CreatedGrade(2)
     /\ reqs[1].data.enrollment_id = reqs[2].data.enrollment_id
     /\ reqs[1].data.evaluation_id # reqs[2].data.evaluation_id)
    => enrollments[reqs[1].data.enrollment_id].final_grade
         = FinalGradeOf(reqs[1].data.enrollment_id)

\* ---- reads
\* The Student rows whose records an answer holds.
StudentsShown(found) ==
    {enrollments[r.enrollment_id].student_id : r \in found.grades}
        \cup {enrollments[e].student_id : e \in found.enrollments}

\* C11: what a read handler answers to a caller of role student holds only
\* records of enrollments of the caller's own Student row.
C11_StudentReadsOwnRecords ==
    (http # None /\ "found" \in DOMAIN http[1] /\ http[1].user.role = "student")
        => \A s \in StudentsShown(http[1].found) :
              http[1].user.student = Some(s)

\* C12: a request of a caller with role student to a route that writes
\* Grade, Evaluation, Enrollment or ClassGroup rows is answered 403 and
\* leaves every table as it was.
C12_StudentChangesNothing ==
    [][(http' # None /\ http'[1].user.role = "student")
       => /\ http'[1].code = 403
          /\ http'[1].error = "role_required"
          /\ tables' = tables]_vars

\* A student's create_grade was refused although an admin's would have
\* created the row.
C12_Witness ==
    /\ Responded("create_grade")
    /\ http[1].user.role = "student"
    /\ http[1].code = 403
    /\ create_grade(DB, [role |-> "admin", teacher |-> None], http[1].args).code
          = 201

\* The Enrollment rows of a (student_id, class_group_id) pair.
EnrollmentsOfPair(student_id, class_id) ==
    {e \in DOMAIN enrollments :
        /\ enrollments[e].student_id = student_id
        /\ enrollments[e].class_group_id = class_id}

\* C13: no (student_id, class_group_id) pair has more than one Enrollment
\* row, and enroll_student for a student who has an Enrollment row in the
\* class group, of whatever status, is answered 400 and adds no row.
C13_OneEnrollmentPerPair ==
    /\ [](\A e \in DOMAIN enrollments :
            EnrollmentsOfPair(enrollments[e].student_id,
                              enrollments[e].class_group_id) = {e})
    /\ [][(/\ http' # None
           /\ http'[1].op = "enroll_student"
           /\ http'[1].user.role \in {"admin", "coordinator"}
           /\ "student_id" \in DOMAIN http'[1].args.data
           /\ EnrollmentsOfPair(http'[1].args.data.student_id,
                                http'[1].args.class_id) # {})
          => /\ http'[1].code = 400
             /\ http'[1].error = "already_enrolled"
             /\ enrollments' = enrollments]_vars

\* enroll_student has refused a student whose one row in the class group
\* has the status dropped.
C13_Witness ==
    /\ Responded("enroll_student")
    /\ http[1].error = "already_enrolled"
    /\ \E e \in EnrollmentsOfPair(http[1].args.data.student_id,
                                   http[1].args.class_id) :
          enrollments[e].status = "dropped"

\* ---- attendance
RecordsWith(statuses) ==
    {i \in DOMAIN enrollments[1].attendance_records :
        enrollments[1].attendance_records[i] \in statuses}

\* C14: with at least one attendance record, attendance_percentage is
\* 100 * (records present or late) / (all records) rounded to hundredths,
\* and the attendance report's attendance_rate over the same records is the
\* same number.
C14_AttendanceFormula ==
    (Responded("attendance_percentage")
        /\ enrollments[1].attendance_records # <<>>)
    => /\ Nearest(http[1].result,
                  10000 * Cardinality(RecordsWith({"present", "late"})),
                  Cardinality(RecordsWith(AttendanceStatus)))
       /\ http[1].rate = Some(http[1].result)

\* A present, a late and a justified record give 66.67.
C14_Witness ==
    /\ Responded("attendance_percentage")
    /\ Len(enrollments[1].attendance_records) = 3
    /\ \A st \in {"present", "late", "justified"} :
          Cardinality(RecordsWith({st})) = 1
    /\ http[1].result = 6667

\* C15: attendance_percentage is a number in [0, 100], and it is 0 when the
\* enrollment has no attendance record.
C15_AttendanceWithinBounds ==
    Responded("attendance_percentage")
    => /\ http[1].result \in 0..10000
       /\ enrollments[1].attendance_records = <<>> => http[1].result = 0

\* The percentage of an enrollment without records has been computed.
C15_Witness ==
    /\ Responded("attendance_percentage")
    /\ enrollments[1].attendance_records = <<>>
    /\ http[1].result = 0

\* ---- transcript
\* The enrollments of a student that have a final grade.
GradedEnrollments(student_id) ==
    {e \in DOMAIN enrollments :
        enrollments[e].student_id = student_id
            /\ enrollments[e].final_grade # None}

RECURSIVE GradePoints(_)
GradePoints(es) ==
    IF es = {} THEN 0
    ELSE LET e == CHOOSE x \in es : TRUE
         IN enrollments[e].final_grade[1]
              * class_groups[enrollments[e].class_group_id].credits
              + GradePoints(es \ {e})

RECURSIVE CreditSum(_)
CreditSum(es) ==
    IF es = {} THEN 0
    ELSE LET e == CHOOSE x \in es : TRUE
         IN class_groups[enrollments[e].class_group_id].credits
              + CreditSum(es \ {e})

\* C16: the transcript's gpa is sum(final_grade * credits) / sum(credits)
\* rounded to hundredths, both sums over the student's enrollments whose
\* final_grade is not null, and 0 when there is none.
C16_GpaOverGradedEnrollments ==
    (Responded("get_student_transcript") /\ http[1].code = 200)
    => LET es == GradedEnrollments(http[1].args.student_id)
       IN IF es = {} THEN http[1].found.gpa = Some(0)
          ELSE /\ http[1].found.gpa # None
               /\ Nearest(http[1].found.gpa[1], GradePoints(es), CreditSum(es))

\* ---- pending grades
\* The (enrollment, evaluation) pairs of a class group, the enrollment of
\* status enrolled, that have no Grade row.
PendingPairs(c) ==
    {p \in (DOMAIN enrollments) \X (DOMAIN evaluations) :
        /\ enrollments[p[1]].class_group_id = c
        /\ enrollments[p[1]].status = "enrolled"
        /\ evaluations[p[2]].class_group_id = c
        /\ RowsOfPair(p[1], p[2]) = 0}

PendingIn(cs) == Cardinality(UNION {PendingPairs(c) : c \in cs})

C18_TerminalStatuses ==
    [][\A c \in DOMAIN class_groups :
          class_groups[c].status \in {"completed", "cancelled"}
              => class_groups'[c].status = class_groups[c].status]_vars

\* C19: a step that sets a class group's status to cancelled finds no
\* enrollment of status enrolled in it; update_class and delete_class
\* refuse the request otherwise.
C19_NoCancelWithEnrolled ==
    [][\A c \in DOMAIN class_groups :
          (class_groups'[c].status = "cancelled"
              /\ class_groups[c].status # "cancelled")
              => EnrolledCount(c) = 0]_vars


\* ---- courses
\* C20: no step takes a course from active to inactive while a student of
\* that course has status active.
C20_NoDeactivationWithActiveStudents ==
    [][\A c \in DOMAIN courses :
          (c \in DOMAIN courses' /\ courses[c].is_active
              /\ courses'[c].is_active = FALSE)
          => active_students_count(Registry, c) = 0]_vars


\* ---- accounts
\* The Student rows and the Teacher rows that point at a User row.
ProfilesOf(user_id) ==
    {<<"student", t>> : t \in {t \in DOMAIN students :
                                   students[t].user_id = user_id}}
    \cup {<<"teacher", t>> : t \in {t \in DOMAIN teachers :
                                       teachers[t].user_id = user_id}}

\* C21: in every committed state a User row of role student or teacher has
\* exactly one Student (Teacher) row, and every Student or Teacher row has
\* its User row of that role: no creating request leaves one row of the two.
C21_UserAndProfileTogether ==
    /\ \A i \in DOMAIN users :
          users[i].role \in {"student", "teacher"}
              => \E t \in (DOMAIN students) \cup (DOMAIN teachers) :
                     ProfilesOf(i) = {<<users[i].role, t>>}
    /\ \A t \in DOMAIN students :
          /\ students[t].user_id \in DOMAIN users
          /\ users[students[t].user_id].role = "student"
    /\ \A t \in DOMAIN teachers :
          /\ teachers[t].user_id \in DOMAIN users
          /\ users[teachers[t].user_id].role = "teacher"

\* A creating request failed at its second row after another one had
\* committed both of its rows.
C21_Witness ==
    /\ http # None
    /\ http[1].op \in {"create_student", "create_teacher",
                       "simple_create_student"}
    /\ http[1].code = 500
    /\ http[1].args.username # None
    /\ \A i \in DOMAIN users : users[i].username # http[1].args.username[1]
    /\ Len(students) + Len(teachers) > 0


\* ---- failed grade requests
\* C22: a create_grade or update_grade request that is answered with an
\* error leaves every Grade row and every enrollment as it was.
C22_FailedGradeRequestWritesNothing ==
    [][(/\ http = None
        /\ http' # None
        /\ http'[1].op \in {"create_grade", "update_grade"}
        /\ http'[1].code \notin {200, 201})
       => (grades' = grades /\ enrollments' = enrollments)]_vars

\* A create_grade request was refused for its score while the store held
\* grades and a computed final grade.
C22_Witness ==
    /\ Responded("create_grade")
    /\ http[1].error = "invalid_score"
    /\ grades # EmptyBag
    /\ \E e \in DOMAIN enrollments : enrollments[e].final_grade # None


\* ---- the error list of a batch
ErrorEntriesOf(i) == {k \in DOMAIN http[1].errors : http[1].errors[k].item = i}

\* C23: the error list of a rejected create_grades_batch holds exactly one
\* entry for each item that fails validation and none for the others.
C23_OneErrorEntryPerFailingItem ==
    (Responded("create_grades_batch") /\ http[1].code = 400
        /\ http[1].args.grades # <<>>)
    => \A i \in DOMAIN http[1].args.grades :
          Cardinality(ErrorEntriesOf(i))
            = IF ItemInvalid(http[1].user, http[1].args.grades[i]) THEN 1 ELSE 0


\* ---- rows that stay
\* C24: no step removes a User, Course, Subject, ClassGroup, Student,
\* Teacher or Enrollment row: the ids of each of them only grow.
C24_RowsNeverRemoved ==
    [][/\ DOMAIN users \subseteq DOMAIN users'
       /\ DOMAIN courses \subseteq DOMAIN courses'
       /\ DOMAIN subjects \subseteq DOMAIN subjects'
       /\ DOMAIN class_groups \subseteq DOMAIN class_groups'
       /\ DOMAIN students \subseteq DOMAIN students'
       /\ DOMAIN teachers \subseteq DOMAIN teachers'
       /\ DOMAIN enrollments \subseteq DOMAIN enrollments']_vars

\* Every delete operation has gone through: each row is still there with
\* its flag flipped, and the Grade rows are gone.
C24_Witness ==
    /\ \A i \in DOMAIN users : ~users[i].is_active
    /\ Len(users) = 4
    /\ Len(courses) = 1 /\ ~courses[1].is_active
    /\ Len(subjects) = 1 /\ ~subjects[1].is_active
    /\ Len(class_groups) = 1 /\ class_groups[1].status = "cancelled"
    /\ \A t \in Students : students[t].status = "inactive"
    /\ Len(teachers) = 1 /\ teachers[1].status = "inactive"
    /\ Len(enrollments) = 2
    /\ \A e \in DOMAIN enrollments : enrollments[e].status = "dropped"
    /\ grades = EmptyBag


\* ---- final grades after a batch
\* C25: after a create_grades_batch that commits, every enrollment named by
\* an item of the batch has final_grade equal to calculate_final_grade over
\* its Grade rows as they stand after the batch.
C25_BatchFinalGradesCurrent ==
    Succeeded("create_grades_batch")
    => \A i \in DOMAIN http[1].args.grades :
          LET e == http[1].args.grades[i].enrollment_id
          IN  enrollments[e].final_grade = FinalGradeOf(e)


\* ---- concurrent enrollments
EnrolledBy(p) ==
    /\ reqs[p].pc = "done"
    /\ reqs[p].op = "enroll_student"
    /\ reqs[p].code = 201

\* C26: when two concurrent enroll_student requests for two students of one
\* class group have both succeeded, the class group's enrolled count is
\* within max_students: with one free seat only one of them succeeds.
C26_OneSeatOneEnrollment ==
    (/\ EnrolledBy(1) /\ EnrolledBy(2)
     /\ reqs[1].class_id = reqs[2].class_id
     /\ reqs[1].data.student_id # reqs[2].data.student_id)
    => EnrolledCount(reqs[1].class_id)
         <= class_groups[reqs[1].class_id].max_students


\* ---- grades and class groups
\* C27: every Grade row links an enrollment and an evaluation of the same
\* class group.
C27_GradeWithinOneClassGroup ==
    \A r \in DOMAIN grades :
        enrollments[r.enrollment_id].class_group_id
          = evaluations[r.evaluation_id].class_group_id


\* ---- enrollment status
\* C28: an enrollment's status changes only from enrolled to dropped, by a
\* successful unenroll_student, which frees one seat of its class group; and
\* no Enrollment row is added for a student who has a row for the class
\* group, dropped or not.
C28_DroppedIsFinal ==
    [][/\ \A e \in DOMAIN enrollments :
             enrollments'[e].status # enrollments[e].status
             => /\ enrollments[e].status = "enrolled"
                /\ enrollments'[e].status = "dropped"
                /\ http'[1].op = "unenroll_student"
                /\ http'[1].code = 200
                /\ EnrolledCount(enrollments[e].class_group_id)'
                     = EnrolledCount(enrollments[e].class_group_id) - 1
       /\ \A n \in (DOMAIN enrollments') \ (DOMAIN enrollments) :
             \A e \in DOMAIN enrollments :
                ~(/\ enrollments[e].student_id = enrollments'[n].student_id
                  /\ enrollments[e].class_group_id
                       = enrollments'[n].class_group_id)]_vars

\* A student whose enrollment is dropped asked for the class group again and
\* was refused, although the class group has a free seat.
C28_Witness ==
    /\ Responded("enroll_student")
    /\ http[1].error = "already_enrolled"
    /\ \E e \in DOMAIN enrollments :
          /\ enrollments[e].student_id = http[1].args.data.student_id
          /\ enrollments[e].class_group_id = http[1].args.class_id
          /\ enrollments[e].status = "dropped"
    /\ EnrolledCount(http[1].args.class_id)
         < class_groups[http[1].args.class_id].max_students


\* ---- final_status
\* C29: every enrollment has final_status in_progress, and a transcript
\* reports no credits earned, no approved and no failed subject, and as
\* credits attempted the credits of the subjects of all the student's
\* enrollments.
C29_FinalStatusNeverWritten ==
    /\ \A e \in DOMAIN enrollments : enrollments[e].final_status = "in_progress"
    /\ (Responded("get_student_transcript") /\ http[1].code = 200)
       => LET summary == http[1].found.summary[1]
          IN  /\ summary.total_credits_earned = 0
              /\ summary.approved_subjects = 0
              /\ summary.failed_subjects = 0
              /\ summary.total_credits_attempted
                   = CreditSum({e \in DOMAIN enrollments :
                         enrollments[e].student_id = http[1].args.student_id})

\* The transcript of a student with two enrollments, one of them with a
\* final grade of 6.00 or more, has been answered.
C29_Witness ==
    /\ Responded("get_student_transcript")
    /\ http[1].code = 200
    /\ http[1].found.summary[1].total_credits_attempted = 6
    /\ \E e \in DOMAIN enrollments :
          /\ enrollments[e].student_id = http[1].args.student_id
          /\ enrollments[e].final_grade # None
          /\ enrollments[e].final_grade[1] >= 600


\* ---- what a grade request leaves alone
\* The enrollment and the evaluation a grade request names: in its body for
\* create_grade, by the Grade row of its id for update_grade, delete_grade.
TargetOf(request) ==
    IF request.op = "create_grade"
    THEN <<request.args.enrollment_id, request.args.evaluation_id>>
    ELSE <<request.args.grade[1].enrollment_id,
           request.args.grade[1].evaluation_id>>

\* C30: a successful create_grade, update_grade or delete_grade on the grade
\* of enrollment E and evaluation V changes no Grade row of another pair,
\* no other enrollment, and of E nothing but final_grade.
C30_GradeRequestFrame ==
    [][(/\ http = None
        /\ http' # None
        /\ http'[1].op \in {"create_grade", "update_grade", "delete_grade"}
        /\ http'[1].code \in {200, 201})
       => LET E == TargetOf(http'[1])[1]
              V == TargetOf(http'[1])[2]
          IN  /\ \A r \in (DOMAIN grades) \cup (DOMAIN grades') :
                    (r.enrollment_id # E \/ r.evaluation_id # V)
                    => CopiesIn(r, grades') = CopiesIn(r, grades)
              /\ DOMAIN enrollments' = DOMAIN enrollments
              /\ \A e \in DOMAIN enrollments :
                    e # E => enrollments'[e] = enrollments[e]
              /\ enrollments'[E] = [enrollments[E] EXCEPT
                                       !.final_grade = enrollments'[E].final_grade]
              /\ class_groups' = class_groups
              /\ evaluations' = evaluations]_vars

\* An update_grade has changed the final grade of its enrollment while the
\* other enrollment holds a grade of the same evaluation and a final grade.
C30_Witness ==
    /\ Succeeded("update_grade")
    /\ "score" \in DOMAIN http[1].args.data
    /\ http[1].args.data.score # http[1].args.grade[1].score
    /\ \E r \in DOMAIN grades :
          /\ r.enrollment_id # http[1].args.grade[1].enrollment_id
          /\ r.evaluation_id = http[1].args.grade[1].evaluation_id
          /\ enrollments[r.enrollment_id].final_grade # None

====
